---- MODULE Spec2Model ----
(***************************************************************************)
(* code-atlas: the incremental cache (core/cache.ts), the parallel parse   *)
(* coordinator (core/parser.ts, core/worker.ts) and the duplicate detector *)
(* (core/registry.ts), as state machines.                                  *)
(***************************************************************************)
EXTENDS Integers, Sequences, FiniteSets, TLC

(* ------------------------------ bounds -------------------------------- *)
\* number of files the crawler hands to parseFiles
NumFiles == 11
\* largest value of cpus().length
MaxCpus == 2
\* scans run one after the other
MaxRuns == 2
\* file modifications made by the environment
MaxMutations == 1
\* modification times a file can carry
MaxMtime == 2

\* functions handed to detectDuplicates
MaxFns == 3
\* tokens of a function body
MaxTokens == 3
\* function declarations of a source file
MaxDecls == 2
\* nodes below a function declaration
MaxNodes == 2
\* functions handed to buildDependencyGraph
MaxFuncs == 3
\* characters of a structural hash
HashLen == 10

(* ------------------------- program constants -------------------------- *)
\* registry.ts:166  SIMILARITY_THRESHOLD = 0.85, as ThresholdNum / ThresholdDen
ThresholdNum == 85
ThresholdDen == 100
\* registry.ts:167
HASH_PREFIX_LENGTH == 8
\* parser.ts:147  Math.ceil(uncachedFiles.length / 10)
FilesPerWorker == 10
\* cache.ts:25
CACHE_VERSION == "0.1.0"
\* a version tag written by another release of the tool
OTHER_VERSION == "0.0.9"
\* worker.ts:70  the pseudo path 'worker' of a worker-level failure
WorkerPath == 0

Paths == 1..NumFiles
\* a file declares no function or one
Bodies == {0, 1}
\* the files the environment modifies: the first of the first chunk and the
\* last of the last one
VolatilePaths == {1, NumFiles}

NoError == "undefined"
Missing == [kind |-> "missing", mtime |-> 0, body |-> 0]
FileState ==
    {Missing}
    \cup [kind : {"ok"}, mtime : 1..MaxMtime, body : Bodies]
    \cup [kind : {"bad"}, mtime : 1..MaxMtime, body : {0}]

Min(a, b) == IF a < b THEN a ELSE b
\* Math.ceil(a / b) for a >= 0, b > 0
CeilDiv(a, b) == (a + b - 1) \div b
Range(s) == {s[i] : i \in DOMAIN s}
EmptyMap == [p \in {} |-> Missing]

VARIABLES
    fs,            \* the scanned files: path -> what stat and the parser see
    disk,          \* .code-atlas/cache.json
    cpus,          \* cpus().length
    filePaths,     \* parseFiles: the crawler's list
    useCache,      \* parseFiles: second parameter
    pc,            \* parseFiles: idle, waiting (on Promise.all), returned, thrown
    cache,         \* parseFiles: the Cache object of the run
    cachedFiles,   \* parseFiles: classification
    uncachedFiles,
    chunks,        \* parseFiles: one list per worker
    worker,        \* per chunk: the worker thread and its promise
    results,       \* parseFiles: ParseResult[]
    runs,          \* scans started
    muts,          \* file modifications made
    last,          \* cache.ts called directly: the latest call and what it returned
    fresh,         \* the latest updateCacheEntry whose file was not modified since
    dupInput,      \* registry.ts: the functions handed to detectDuplicates
    duplicates,    \* registry.ts: what detectDuplicates returned
    dupPc,         \* registry.ts: input, done
    scan,          \* cli.ts: the options of the latest scan invocation
    source,        \* extractor.ts: the function declarations of a source file
    records,       \* extractor.ts: the records extracted from them
    depInput,      \* dependencies.ts: the functions and their call expressions
    graph,         \* dependencies.ts: what buildDependencyGraph returned
    diffInput,     \* git.ts: the base and head registries handed to compareRegistries
    diff,          \* git.ts: what compareRegistries returned
    focus,         \* git.ts: the focus functions and depth of buildImpactSubgraph
    subgraph,      \* git.ts: what buildImpactSubgraph returned
    watchPc,       \* watch command: where watchCommand stands
    rescanTimer,   \* watch command: the debounce timer of scheduleRescan
    scanning,      \* watch command: the scanCommand calls not yet settled
    events         \* watch command: the watcher events delivered so far

runVars == <<fs, disk, cpus, filePaths, useCache, pc, cache, cachedFiles,
             uncachedFiles, chunks, worker, results, runs, muts>>
apiVars == <<last, fresh>>
dupVars == <<dupInput, duplicates, dupPc>>
extVars == <<scan, source, records, depInput, graph>>
diffVars == <<diffInput, diff>>
impactVars == <<focus, subgraph>>
watchVars == <<watchPc, rescanTimer, scanning, events>>
cmdVars == <<diffVars, impactVars, watchVars>>
vars == <<runVars, apiVars, dupVars, extVars, cmdVars>>

(* ----------------------------- cache.ts ------------------------------- *)
\* stat(filePath) rejects
statFails(filePath, fsys) == fsys[filePath].kind = "missing"

EmptyCache == [version |-> CACHE_VERSION, entries |-> EmptyMap]

\* loadCache without the version test
loadCacheAnyVersion(d) ==
    IF d.kind # "doc" THEN EmptyCache
    ELSE [version |-> CACHE_VERSION, entries |-> d.entries]

\* loadCache: readFile + JSON.parse, the version test, Object.entries
loadCache(d) ==
    IF d.kind # "doc" THEN EmptyCache
    ELSE IF d.version # CACHE_VERSION THEN EmptyCache
    ELSE [version |-> CACHE_VERSION, entries |-> d.entries]

\* saveCache: the document written by writeFile
saveCache(c) == [kind |-> "doc", version |-> c.version, entries |-> c.entries]

\* isFileCached trusting the entry of a file it cannot stat
isFileCachedFailClosed(filePath, c, fsys) ==
    IF filePath \notin DOMAIN c.entries THEN FALSE
    ELSE IF statFails(filePath, fsys) THEN TRUE
    ELSE fsys[filePath].mtime = c.entries[filePath].mtime

isFileCached(filePath, c, fsys) ==
    IF filePath \notin DOMAIN c.entries THEN FALSE
    ELSE IF statFails(filePath, fsys) THEN FALSE
    ELSE fsys[filePath].mtime = c.entries[filePath].mtime

\* FunctionMetadata[] | null
Null == [isNull |-> TRUE, value |-> <<>>]
Some(v) == [isNull |-> FALSE, value |-> v]
getCachedFunctions(filePath, c) ==
    IF filePath \in DOMAIN c.entries THEN Some(c.entries[filePath].functions) ELSE Null

\* updateCacheEntry dropping the entry of a file it cannot stat
updateCacheEntryEvicting(filePath, functions, c, fsys) ==
    IF statFails(filePath, fsys)
    THEN [c EXCEPT !.entries = [p \in DOMAIN c.entries \ {filePath} |-> c.entries[p]]]
    ELSE [c EXCEPT !.entries =
            [p \in DOMAIN c.entries \cup {filePath} |->
                IF p = filePath
                THEN [filePath |-> filePath, mtime |-> fsys[filePath].mtime,
                      functions |-> functions]
                ELSE c.entries[p]]]

\* updateCacheEntry stamping the entry with the time of the update
updateCacheEntryStampingNow(filePath, functions, c, fsys) ==
    IF statFails(filePath, fsys) THEN c
    ELSE [c EXCEPT !.entries =
            [p \in DOMAIN c.entries \cup {filePath} |->
                IF p = filePath
                THEN [filePath |-> filePath, mtime |-> fsys[filePath].mtime + 1,
                      functions |-> functions]
                ELSE c.entries[p]]]

\* cache.ts:99-108  the try/catch around stat lets nothing escape
updateCacheEntryRaises(filePath, fsys) == FALSE

updateCacheEntry(filePath, functions, c, fsys) ==
    IF statFails(filePath, fsys) THEN c
    ELSE [c EXCEPT !.entries =
            [p \in DOMAIN c.entries \cup {filePath} |->
                IF p = filePath
                THEN [filePath |-> filePath, mtime |-> fsys[filePath].mtime,
                      functions |-> functions]
                ELSE c.entries[p]]]

(* ----------------------------- worker.ts ------------------------------ *)
\* extractFunctionMetadata over sourceFile.getFunctions(): one record per
\* declaration of the file, each carrying the file's path
extractRecords(filePath, f) ==
    [i \in 1..f.body |-> [filePath |-> filePath, name |-> i, src |-> f.body]]

\* worker.ts parseFilesInWorker: the loop over the chunk; addSourceFileAtPath
\* or getFunctions throwing puts the file in errors
RECURSIVE workerLoop(_, _, _)
workerLoop(paths, fsys, acc) ==
    IF paths = <<>> THEN acc
    ELSE LET p == Head(paths)
             f == fsys[p]
         IN workerLoop(Tail(paths), fsys,
                IF f.kind = "ok"
                THEN [acc EXCEPT !.functions = @ \o extractRecords(p, f)]
                ELSE [acc EXCEPT !.errors =
                        Append(@, [filePath |-> p, error |-> "message"])])

workerResult(paths, fsys) ==
    workerLoop(paths, fsys, [functions |-> <<>>, errors |-> <<>>])

\* worker.ts:67-72  the .catch of the worker entry
workerFailureResult ==
    [functions |-> <<>>,
     errors |-> <<[filePath |-> WorkerPath, error |-> "message"]>>]

(* ----------------------------- parser.ts ------------------------------ *)
\* a JS Map as the sequence of its [key, value] pairs in insertion order
mapHas(m, k) == \E i \in DOMAIN m : m[i].filePath = k
mapIndex(m, k) == CHOOSE i \in DOMAIN m : m[i].filePath = k

\* parser.ts:223-229  group the flat function list by func.filePath
RECURSIVE groupByFile(_, _)
groupByFile(functions, m) ==
    IF functions = <<>> THEN m
    ELSE LET func == Head(functions)
             m1 == IF mapHas(m, func.filePath) THEN m
                   ELSE Append(m, [filePath |-> func.filePath, functions |-> <<>>])
             i == mapIndex(m1, func.filePath)
         IN groupByFile(Tail(functions),
                        [m1 EXCEPT ![i].functions = Append(@, func)])

\* parser.ts:231-236  an empty array for every file of the chunk not yet a key
RECURSIVE fillEmpty(_, _)
fillEmpty(paths, m) ==
    IF paths = <<>> THEN m
    ELSE fillEmpty(Tail(paths),
                   IF mapHas(m, Head(paths)) THEN m
                   ELSE Append(m, [filePath |-> Head(paths), functions |-> <<>>]))

\* parser.ts:216-246  the 'message' handler: the value the promise resolves to
onMessage(paths, result) ==
    [functions |-> fillEmpty(paths, groupByFile(result.functions, <<>>)),
     errors |-> result.errors]

\* the classification loop sending every file to the workers
uncachedOfAll(paths, uc, c, fsys) == paths

\* parser.ts:118-124  the classification loop
uncachedOf(paths, uc, c, fsys) ==
    SelectSeq(paths, LAMBDA p : ~(uc /\ isFileCached(p, c, fsys)))
cachedOf(paths, uc, c, fsys) ==
    SelectSeq(paths, LAMBDA p : uc /\ isFileCached(p, c, fsys))

\* parser.ts:127-134  a result per cached file
cachedResults(paths, c) ==
    [i \in 1..Len(paths) |->
        [filePath |-> paths[i],
         metadata |-> IF getCachedFunctions(paths[i], c).isNull THEN <<>>
                      ELSE getCachedFunctions(paths[i], c).value,
         error |-> NoError]]

\* parser.ts:147-153
numWorkersOf(n, ncpu) == Min(ncpu, CeilDiv(n, FilesPerWorker))
\* Math.floor in place of Math.ceil at parser.ts:148
chunkSizeOfFloor(n, ncpu) == n \div numWorkersOf(n, ncpu)
chunkSizeOf(n, ncpu) == CeilDiv(n, numWorkersOf(n, ncpu))
makeChunks(uncached, ncpu) ==
    LET n == Len(uncached)
        size == chunkSizeOf(n, ncpu)
    IN [k \in 1..CeilDiv(n, size) |->
            SubSeq(uncached, (k - 1) * size + 1, Min(k * size, n))]

\* parser.ts:161-171  one worker's successes: a result each, and the cache
RECURSIVE aggregateFunctions(_, _, _, _)
aggregateFunctions(m, acc, uc, fsys) ==
    IF m = <<>> THEN acc
    ELSE LET e == Head(m)
         IN aggregateFunctions(Tail(m),
                [results |-> Append(acc.results,
                                [filePath |-> e.filePath, metadata |-> e.functions,
                                 error |-> NoError]),
                 cache |-> IF uc
                           THEN updateCacheEntry(e.filePath, e.functions, acc.cache, fsys)
                           ELSE acc.cache],
                uc, fsys)

\* parser.ts:173-179  one worker's failures
errorResults(errors) ==
    [i \in 1..Len(errors) |->
        [filePath |-> errors[i].filePath, metadata |-> <<>>, error |-> errors[i].error]]

\* parser.ts:160-180  the loop over the workers' values
RECURSIVE aggregate(_, _, _, _)
aggregate(workerResults, acc, uc, fsys) ==
    IF workerResults = <<>> THEN acc
    ELSE LET w == Head(workerResults)
             a == aggregateFunctions(w.functions, acc, uc, fsys)
         IN aggregate(Tail(workerResults),
                      [a EXCEPT !.results = @ \o errorResults(w.errors)],
                      uc, fsys)

(* ------------------------------ the run ------------------------------- *)
AllFiles == [i \in 1..NumFiles |-> i]
NoDisk == [kind |-> "absent", version |-> "", entries |-> EmptyMap]
NewWorker == [st |-> "running", promise |-> "pending",
              value |-> [functions |-> <<>>, errors |-> <<>>]]

NoCall == [op |-> "none", path |-> WorkerPath, functions |-> <<>>,
           cached |-> FALSE, got |-> Null, raised |-> FALSE]
NoFresh == [valid |-> FALSE, path |-> WorkerPath, functions |-> <<>>]
ApiIdle == last = NoCall /\ fresh = NoFresh
DupIdle == dupInput = <<>> /\ duplicates = <<>> /\ dupPc = "off"
NoScan == [config |-> FALSE, noCache |-> FALSE, run |-> 0]
NoGraph == [built |-> FALSE, nodes |-> <<>>, orphans |-> <<>>,
            entryPoints |-> <<>>, circularDependencies |-> <<>>]
ScanIdle == scan = NoScan
NoRecords == [via |-> "none", list |-> <<>>]
SourceIdle == source = <<>> /\ records = NoRecords
GraphIdle == depInput = <<>> /\ graph = NoGraph
ExtIdle == ScanIdle /\ SourceIdle /\ GraphIdle
NoRegistries == [base |-> [functions |-> <<>>], head |-> [functions |-> <<>>]]
NoDiff == [compared |-> FALSE, added |-> <<>>, modified |-> <<>>,
           deleted |-> <<>>, unchanged |-> <<>>]
DiffIdle == diffInput = NoRegistries /\ diff = NoDiff
NoFocus == [functions |-> <<>>, depth |-> 1]
ImpactIdle == focus = NoFocus /\ subgraph = NoGraph
WatchIdle ==
    watchPc = "off" /\ rescanTimer = "null" /\ scanning = <<>> /\ events = 0
CmdIdle == DiffIdle /\ ImpactIdle /\ WatchIdle

RunInit ==
    /\ ApiIdle
    /\ DupIdle
    /\ CmdIdle
    /\ ExtIdle
    /\ fs = [p \in Paths |-> [kind |-> "ok", mtime |-> 1, body |-> 1]]
    /\ disk = NoDisk
    /\ cpus \in 1..MaxCpus
    /\ filePaths = <<>>
    /\ useCache = TRUE
    /\ pc = "idle"
    /\ cache = EmptyCache
    /\ cachedFiles = <<>>
    /\ uncachedFiles = <<>>
    /\ chunks = <<>>
    /\ worker = <<>>
    /\ results = <<>>
    /\ runs = 0
    /\ muts = 0

\* parser.ts:98-157  parseFiles up to the await of Promise.all (or the early
\* return when nothing is left to parse)
StartRun(paths, uc) ==
    /\ pc # "waiting"
    /\ runs < MaxRuns
    /\ runs' = runs + 1
    /\ filePaths' = paths
    /\ useCache' = uc
    /\ cache' = IF uc THEN loadCache(disk) ELSE EmptyCache
    /\ cachedFiles' = cachedOf(paths, uc, cache', fs)
    /\ uncachedFiles' = uncachedOf(paths, uc, cache', fs)
    /\ results' = cachedResults(cachedFiles', cache')
    /\ IF uncachedFiles' = <<>>
       THEN /\ chunks' = <<>>
            /\ worker' = <<>>
            /\ pc' = "returned"
       ELSE /\ chunks' = makeChunks(uncachedFiles', cpus)
            /\ worker' = [k \in 1..Len(chunks') |-> NewWorker]
            /\ pc' = "waiting"
    /\ UNCHANGED <<apiVars, dupVars, extVars, cmdVars>>
    /\ UNCHANGED <<fs, disk, cpus, muts>>

\* worker.ts:24-65, parser.ts:216-246  the worker reads and parses its chunk
\* and posts the result; the 'message' handler resolves the promise
WorkerPost(w) ==
    /\ pc = "waiting"
    /\ worker[w].st = "running"
    /\ worker' = [worker EXCEPT ![w].st = "posted",
                                ![w].promise = "resolved",
                                ![w].value = onMessage(chunks[w], workerResult(chunks[w], fs))]
    /\ UNCHANGED <<apiVars, dupVars, extVars, cmdVars>>
    /\ UNCHANGED <<fs, disk, cpus, filePaths, useCache, pc, cache, cachedFiles,
                   uncachedFiles, chunks, results, runs, muts>>

\* worker.ts:67-72, parser.ts:216-246  parseFilesInWorker rejected inside the
\* worker: the failure is posted as a result and resolves the promise
WorkerFail(w) ==
    /\ pc = "waiting"
    /\ worker[w].st = "running"
    /\ worker' = [worker EXCEPT ![w].st = "posted",
                                ![w].promise = "resolved",
                                ![w].value = onMessage(chunks[w], workerFailureResult)]
    /\ UNCHANGED <<apiVars, dupVars, extVars, cmdVars>>
    /\ UNCHANGED <<fs, disk, cpus, filePaths, useCache, pc, cache, cachedFiles,
                   uncachedFiles, chunks, results, runs, muts>>

\* the 'error' handler marking the crashed chunk's files in the cache and
\* saving it before rejecting
WorkerErrorFlushing(w) ==
    /\ pc = "waiting"
    /\ worker[w].st = "running"
    /\ worker' = [worker EXCEPT ![w].st = "crashed", ![w].promise = "rejected"]
    /\ pc' = "thrown"
    /\ results' = <<>>
    /\ cache' = aggregateFunctions(fillEmpty(chunks[w], <<>>),
                    [results |-> <<>>, cache |-> cache], useCache, fs).cache
    /\ disk' = IF useCache THEN saveCache(cache') ELSE disk
    /\ UNCHANGED <<apiVars, dupVars, extVars, cmdVars>>
    /\ UNCHANGED <<fs, cpus, filePaths, useCache, cachedFiles,
                   uncachedFiles, chunks, runs, muts>>

\* parser.ts:248-250  'error' before the result was posted: reject, and the
\* await of Promise.all throws out of parseFiles
WorkerError(w) ==
    /\ pc = "waiting"
    /\ worker[w].st = "running"
    /\ worker' = [worker EXCEPT ![w].st = "crashed", ![w].promise = "rejected"]
    /\ pc' = "thrown"
    /\ results' = <<>>
    /\ UNCHANGED <<apiVars, dupVars, extVars, cmdVars>>
    /\ UNCHANGED <<fs, disk, cpus, filePaths, useCache, cache, cachedFiles,
                   uncachedFiles, chunks, runs, muts>>

\* parser.ts:252-256  'exit' before the result was posted: a non-zero code
\* rejects the promise, code 0 settles nothing (after the result was posted
\* the promise is settled and neither handler changes anything)
WorkerExit(w, code) ==
    /\ pc = "waiting"
    /\ worker[w].st = "running"
    /\ IF code # 0
       THEN /\ worker' = [worker EXCEPT ![w].st = "crashed", ![w].promise = "rejected"]
            /\ pc' = "thrown"
            /\ results' = <<>>
       ELSE /\ worker' = [worker EXCEPT ![w].st = "exited"]
            /\ UNCHANGED <<pc, results>>
    /\ UNCHANGED <<apiVars, dupVars, extVars, cmdVars>>
    /\ UNCHANGED <<fs, disk, cpus, filePaths, useCache, cache, cachedFiles,
                   uncachedFiles, chunks, runs, muts>>

\* parser.ts:159-194  every promise resolved: aggregate, update the cache,
\* save it (saveCache swallows a failing mkdir or writeFile), return
Aggregate(saved) ==
    /\ pc = "waiting"
    /\ \A w \in DOMAIN worker : worker[w].promise = "resolved"
    /\ LET a == aggregate([w \in DOMAIN worker |-> worker[w].value],
                          [results |-> results, cache |-> cache], useCache, fs)
       IN /\ results' = a.results
          /\ cache' = a.cache
          /\ disk' = IF useCache /\ saved THEN saveCache(a.cache) ELSE disk
    /\ pc' = "returned"
    /\ UNCHANGED <<apiVars, dupVars, extVars, cmdVars>>
    /\ UNCHANGED <<fs, cpus, filePaths, useCache, cachedFiles, uncachedFiles,
                   chunks, worker, runs, muts>>

\* the environment rewrites, touches, breaks or removes a scanned file
MutateFile(p, f) ==
    /\ muts < MaxMutations
    /\ runs < MaxRuns \/ pc = "waiting"
    /\ f # fs[p]
    /\ fs' = [fs EXCEPT ![p] = f]
    /\ muts' = muts + 1
    /\ UNCHANGED <<apiVars, dupVars, extVars, cmdVars>>
    /\ UNCHANGED <<disk, cpus, filePaths, useCache, pc, cache, cachedFiles,
                   uncachedFiles, chunks, worker, results, runs>>

\* between scans the cache file is damaged, or replaced by another release's
TamperCacheFile(how) ==
    /\ pc # "waiting"
    /\ runs < MaxRuns
    /\ disk.kind = "doc"
    /\ disk.version = CACHE_VERSION
    /\ disk' = IF how = "corrupt"
               THEN [kind |-> "corrupt", version |-> "", entries |-> EmptyMap]
               ELSE [disk EXCEPT !.version = OTHER_VERSION]
    /\ UNCHANGED <<apiVars, dupVars, extVars, cmdVars>>
    /\ UNCHANGED <<fs, cpus, filePaths, useCache, pc, cache, cachedFiles,
                   uncachedFiles, chunks, worker, results, runs, muts>>

RunNext ==
    \/ \E uc \in BOOLEAN : StartRun(AllFiles, uc)
    \/ \E w \in DOMAIN worker : WorkerFail(w)
    \/ \E w \in DOMAIN worker : WorkerPost(w)
    \/ \E w \in DOMAIN worker : WorkerError(w)
    \/ \E w \in DOMAIN worker, code \in {0, 1} : WorkerExit(w, code)
    \/ \E saved \in BOOLEAN : Aggregate(saved)
    \/ \E p \in VolatilePaths, f \in FileState : MutateFile(p, f)
    \/ \E how \in {"corrupt", "version"} : TamperCacheFile(how)

RunSpec == RunInit /\ [][RunNext]_vars

(* ------------------------- the scan command --------------------------- *)
\* a JS boolean or undefined
Truthy(v) == v = "true"

\* cli.ts:55-62  the options object built from the command line
cliOptions(flag) == [noCache |-> IF flag THEN "true" ELSE "false"]

\* config.ts mergeConfig: without a configuration file the options as given;
\* with one, a new object holding ignore, includeTests, maxComplexity and
\* output only
mergeConfig(config, options) ==
    IF ~config THEN options ELSE [noCache |-> "undefined"]

\* cli.ts:53-62, scan.ts:35  code-atlas scan [--no-cache]: the options are
\* parsed and the configuration file, if any, is loaded
Invoke(config, flag) ==
    /\ pc # "waiting"
    /\ runs < MaxRuns
    /\ scan.run # runs + 1
    /\ scan' = [config |-> config, noCache |-> flag, run |-> runs + 1]
    /\ UNCHANGED <<runVars, apiVars, dupVars, cmdVars, source, records, depInput,
                 graph>>

\* scan.ts:38-59  mergeConfig, crawl, parseFiles(files, !options.noCache)
ScanCommand ==
    /\ scan.run = runs + 1
    /\ StartRun(AllFiles,
                ~Truthy(mergeConfig(scan.config, cliOptions(scan.noCache)).noCache))

ScanNext ==
    \/ \E config \in BOOLEAN, flag \in BOOLEAN : Invoke(config, flag)
    \/ ScanCommand
    \/ \E w \in DOMAIN worker : WorkerPost(w)
    \/ \E saved \in BOOLEAN : Aggregate(saved)

ScanSpec == RunInit /\ [][ScanNext]_vars

(* --------------------- cache.ts called directly ----------------------- *)
\* the record lists a caller passes for a path
RecordLists(p) == {extractRecords(p, [body |-> b]) : b \in Bodies}

\* no scan runs: the files and the cache file stay as they are
FilesIdle ==
    /\ fs = [p \in Paths |-> [kind |-> "ok", mtime |-> 1, body |-> 1]]
    /\ disk = NoDisk
    /\ cache = EmptyCache
    /\ muts = 0

RunIdle ==
    /\ cpus = 1
    /\ filePaths = <<>>
    /\ useCache = TRUE
    /\ pc = "idle"
    /\ cachedFiles = <<>>
    /\ uncachedFiles = <<>>
    /\ chunks = <<>>
    /\ worker = <<>>
    /\ results = <<>>
    /\ runs = 0

CacheInit ==
    /\ RunIdle
    /\ DupIdle
    /\ CmdIdle
    /\ ExtIdle
    /\ fs = [p \in Paths |-> [kind |-> "ok", mtime |-> 1, body |-> 1]]
    /\ disk = NoDisk
    /\ cache = EmptyCache
    /\ muts = 0
    /\ last = NoCall
    /\ fresh = NoFresh

CacheFrame ==
    UNCHANGED <<cpus, filePaths, useCache, pc, cachedFiles, uncachedFiles,
                chunks, worker, results, runs, dupVars, extVars, cmdVars>>

CallUpdateCacheEntry(p, fns) ==
    /\ cache' = updateCacheEntry(p, fns, cache, fs)
    /\ last' = [NoCall EXCEPT !.op = "updateCacheEntry", !.path = p,
                              !.functions = fns,
                              !.raised = updateCacheEntryRaises(p, fs)]
    /\ fresh' = [valid |-> TRUE, path |-> p, functions |-> fns]
    /\ UNCHANGED <<fs, disk, muts>>
    /\ CacheFrame

CallIsFileCached(p) ==
    /\ last' = [NoCall EXCEPT !.op = "isFileCached", !.path = p,
                              !.cached = isFileCached(p, cache, fs)]
    /\ UNCHANGED <<fs, disk, cache, muts, fresh>>
    /\ CacheFrame

CallGetCachedFunctions(p) ==
    /\ last' = [NoCall EXCEPT !.op = "getCachedFunctions", !.path = p,
                              !.got = getCachedFunctions(p, cache)]
    /\ UNCHANGED <<fs, disk, cache, muts, fresh>>
    /\ CacheFrame

\* the environment rewrites, touches, breaks or removes a file
CacheMutateFile(p, f) ==
    /\ muts < MaxMutations
    /\ f # fs[p]
    /\ fs' = [fs EXCEPT ![p] = f]
    /\ muts' = muts + 1
    /\ last' = [NoCall EXCEPT !.op = "mutate", !.path = p]
    /\ fresh' = IF fresh.path = p THEN NoFresh ELSE fresh
    /\ UNCHANGED <<disk, cache>>
    /\ CacheFrame

CacheNext ==
    \/ \E p \in VolatilePaths : \E fns \in RecordLists(p) : CallUpdateCacheEntry(p, fns)
    \/ \E p \in VolatilePaths : CallIsFileCached(p)
    \/ \E p \in VolatilePaths : CallGetCachedFunctions(p)
    \/ \E p \in VolatilePaths, f \in FileState : CacheMutateFile(p, f)

CacheSpec == CacheInit /\ [][CacheNext]_vars

(* ---------------------------- registry.ts ----------------------------- *)
\* strings are sequences of character codes: a hex digit is its value,
\* 'u', 'y', 'z' and '_' are 30, 34, 35 and 36
FuzzyPrefix == <<15, 30, 35, 35, 34, 36>>
Underscore == <<36>>

\* String.prototype.substring(0, n)
substring0(str, n) == SubSeq(str, 1, Min(n, Len(str)))

Min3(a, b, c) == Min(a, Min(b, c))

\* registry.ts:248-265  one row of the matrix: acc holds matrix[i][0..j-1],
\* prev is matrix[i-1], c is str2[i-1]
RECURSIVE levCells(_, _, _, _)
levCells(prev, c, str1, acc) ==
    IF Len(acc) = Len(str1) + 1 THEN acc
    ELSE LET j == Len(acc)
         IN levCells(prev, c, str1,
                Append(acc, IF c = str1[j] THEN prev[j]
                            ELSE Min3(prev[j] + 1, prev[j + 1] + 1, acc[j] + 1)))

RECURSIVE levRows(_, _, _, _)
levRows(str1, str2, i, prev) ==
    IF i > Len(str2) THEN prev
    ELSE levRows(str1, str2, i + 1, levCells(prev, str2[i], str1, <<i>>))

\* registry.ts:237-268
levenshteinDistance(str1, str2) ==
    levRows(str1, str2, 1, [j \in 1..(Len(str1) + 1) |-> j - 1])[Len(str1) + 1]

\* a similarity score is the fraction num / den
One == [num |-> 1, den |-> 1]

\* registry.ts:220-228
calculateSimilarity(str1, str2) ==
    LET longer == IF Len(str1) > Len(str2) THEN str1 ELSE str2
        shorter == IF Len(str1) > Len(str2) THEN str2 ELSE str1
    IN IF Len(longer) = 0 THEN One
       ELSE [num |-> Len(longer) - levenshteinDistance(longer, shorter),
             den |-> Len(longer)]

\* the threshold test letting every pair of a prefix group through
atLeastThresholdAny(sim) == sim.num >= 0

\* similarity >= SIMILARITY_THRESHOLD
atLeastThreshold(sim) == sim.num * ThresholdDen >= ThresholdNum * sim.den

\* a Map<string, FunctionMetadata[]> as its [key, group] pairs in insertion order
keyIndex(m, k) == CHOOSE i \in DOMAIN m : m[i].key = k
RECURSIVE groupByKey(_, _, _)
groupByKey(funcs, keyOf(_), m) ==
    IF funcs = <<>> THEN m
    ELSE LET func == Head(funcs)
             k == keyOf(func)
         IN groupByKey(Tail(funcs), keyOf,
                IF \E i \in DOMAIN m : m[i].key = k
                THEN [m EXCEPT ![keyIndex(m, k)].group = Append(@, func)]
                ELSE Append(m, [key |-> k, group |-> <<func>>]))

hashOf(func) == func.astHash
\* every function in one prefix group
prefixOfEmpty(func) == substring0(func.astHash, 0)
prefixOf(func) == substring0(func.astHash, HASH_PREFIX_LENGTH)
reference(f) == [name |-> f.name, filePath |-> f.filePath, line |-> f.line]

\* registry.ts:183-207  the pairs (i, j), i < j, of one prefix group, in
\* loop order
RECURSIVE pairsOf(_, _, _)
pairsOf(group, i, j) ==
    IF i > Len(group) THEN <<>>
    ELSE IF j > Len(group) THEN pairsOf(group, i + 1, i + 2)
    ELSE LET func1 == group[i]
             func2 == group[j]
             similarity == calculateSimilarity(func1.astHash, func2.astHash)
         IN (IF func1.astHash # func2.astHash /\ atLeastThreshold(similarity)
             THEN <<[astHash |-> FuzzyPrefix \o substring0(func1.astHash, 8)
                                 \o Underscore \o substring0(func2.astHash, 8),
                     functions |-> <<reference(func1), reference(func2)>>,
                     similarity |-> similarity]>>
             ELSE <<>>)
            \o pairsOf(group, i, j + 1)

RECURSIVE nearOfGroups(_)
nearOfGroups(m) ==
    IF m = <<>> THEN <<>>
    ELSE (IF Len(Head(m).group) < 2 THEN <<>> ELSE pairsOf(Head(m).group, 1, 2))
         \o nearOfGroups(Tail(m))

\* registry.ts:164-211
findNearDuplicates(funcs) == nearOfGroups(groupByKey(funcs, prefixOf, <<>>))

\* the exact pass keeping only the groups of three or more
exactGroupsOverTwo(m) ==
    LET kept == SelectSeq(m, LAMBDA e : Len(e.group) > 2)
    IN [i \in 1..Len(kept) |->
          [astHash |-> kept[i].key,
           functions |-> [k \in 1..Len(kept[i].group) |-> reference(kept[i].group[k])],
           similarity |-> One]]

\* registry.ts:135-147
exactGroups(m) ==
    LET kept == SelectSeq(m, LAMBDA e : Len(e.group) > 1)
    IN [i \in 1..Len(kept) |->
          [astHash |-> kept[i].key,
           functions |-> [k \in 1..Len(kept[i].group) |-> reference(kept[i].group[k])],
           similarity |-> One]]

\* registry.ts:122-154
detectDuplicates(funcs) ==
    exactGroups(groupByKey(funcs, hashOf, <<>>)) \o findNearDuplicates(funcs)

\* the hashes of the inputs: a base hash, one differing from it in the last
\* character, one in the last two, one in the first (another prefix)
BaseHash == [i \in 1..HashLen |-> 0]
HashPool ==
    {BaseHash,
     [BaseHash EXCEPT ![HashLen] = 1],
     [BaseHash EXCEPT ![HashLen] = 1, ![HashLen - 1] = 1],
     [BaseHash EXCEPT ![1] = 1]}

FunctionLists ==
    UNION {[1..n -> HashPool] : n \in 0..MaxFns}

DupInit ==
    /\ RunIdle
    /\ ApiIdle
    /\ ExtIdle
    /\ CmdIdle
    /\ fs = [p \in Paths |-> [kind |-> "ok", mtime |-> 1, body |-> 1]]
    /\ disk = NoDisk
    /\ cache = EmptyCache
    /\ muts = 0
    /\ \E hs \in FunctionLists :
          dupInput = [i \in 1..Len(hs) |->
                        [name |-> i, filePath |-> i, line |-> i, astHash |-> hs[i]]]
    /\ duplicates = <<>>
    /\ dupPc = "input"

\* registry.ts:35  createRegistry calls detectDuplicates(functions)
Detect ==
    /\ dupPc = "input"
    /\ duplicates' = detectDuplicates(dupInput)
    /\ dupPc' = "done"
    /\ UNCHANGED <<runVars, apiVars, dupInput, extVars, cmdVars>>

DupNext == Detect

DupSpec == DupInit /\ [][DupNext]_vars

(* ---------------------------- extractor.ts --------------------------- *)
\* A function declaration is [name, exported, params, body, tree, fails]:
\* params the declared parameter names, body the tokens of its body, tree its
\* descendant nodes, fails whether reading it throws. A body token is a
\* reference to the idx-th parameter ("param"), a property name after a dot
\* ("prop"), a numeric literal ("num"), a string literal ("str") or a
\* comment ("comment").
ParamRef(i) == [kind |-> "param", idx |-> i, text |-> ""]
PropName(t) == [kind |-> "prop", idx |-> 0, text |-> t]
NumLit == [kind |-> "num", idx |-> 0, text |-> "42"]
StrLit == [kind |-> "str", idx |-> 0, text |-> "hello"]
Comment == [kind |-> "comment", idx |-> 0, text |-> "note"]

\* body.getText(): the words, literals and comments of the source text
getText(func) ==
    [i \in 1..Len(func.body) |->
        LET t == func.body[i]
        IN IF t.kind = "param" THEN [cls |-> "word", text |-> func.params[t.idx]]
           ELSE IF t.kind = "prop" THEN [cls |-> "word", text |-> t.text]
           ELSE [cls |-> t.kind, text |-> t.text]]

\* `_param${i}` for the i-th parameter, i counted from 0
Placeholders == <<"_param0", "_param1", "_param2">>

\* normalized.replace(new RegExp(`\\b${name}\\b`, 'g'), placeholder): every
\* whole word equal to the name, whatever it stands for
replaceWord(text, original, placeholder) ==
    [i \in 1..Len(text) |->
        IF text[i].cls = "word" /\ text[i].text = original
        THEN [text[i] EXCEPT !.text = placeholder]
        ELSE text[i]]

\* extractor.ts:414-424  identifierMap.forEach, in the order of the parameters
RECURSIVE replaceParams(_, _, _)
replaceParams(text, params, i) ==
    IF i > Len(params) THEN text
    ELSE replaceParams(replaceWord(text, params[i], Placeholders[i]), params, i + 1)

\* extractor.ts:426-439  comments removed, string contents removed, numbers
\* replaced by 0 (whitespace is not part of a token)
stripLiterals(text) ==
    LET kept == SelectSeq(text, LAMBDA t : t.cls # "comment")
    IN [i \in 1..Len(kept) |->
          IF kept[i].cls = "str" THEN [kept[i] EXCEPT !.text = ""]
          ELSE IF kept[i].cls = "num" THEN [kept[i] EXCEPT !.text = "0"]
          ELSE kept[i]]

\* extractor.ts:404-442
normalizeAST(func) == stripLiterals(replaceParams(getText(func), func.params, 1))

\* the words a normalized body is made of, and the code of each
Words == <<"_param0", "_param1", "_param2", "x", "y", "p", "q", "str", "text",
           "length">>
codeOf(t) ==
    IF t.cls = "word" THEN CHOOSE c \in DOMAIN Words : Words[c] = t.text
    ELSE IF t.cls = "num" THEN Len(Words) + 1
    ELSE Len(Words) + 2

\* createHash('sha256').update(normalized).digest('hex'): a fixed-length
\* digest, equal for equal texts and different for different ones
digest(normalized) ==
    [i \in 1..HashLen |->
        IF i <= Len(normalized) THEN codeOf(normalized[i]) ELSE 0]

\* extractor.ts:390-393
generateASTHash(func) == digest(normalizeAST(func))

\* extractor.ts:363-373  the node kinds that add to the complexity
DecisionKinds ==
    {"IfStatement", "ConditionalExpression", "CaseClause", "ForStatement",
     "ForInStatement", "ForOfStatement", "WhileStatement", "DoStatement",
     "CatchClause"}
\* node kinds that do not
OtherKinds == {"Block", "BinaryExpression", "SwitchStatement"}

\* the callback of forEachDescendant
visit(node, complexity) ==
    IF node.kind \in DecisionKinds THEN complexity + 1 ELSE complexity

\* node.forEachDescendant: the nodes below node n of the tree, depth first;
\* a node of the tree is [kind, parent], parent 0 being the declaration
RECURSIVE forEachDescendant(_, _, _, _)
forEachDescendant(tree, n, i, complexity) ==
    IF i > Len(tree) THEN complexity
    ELSE IF tree[i].parent = n
    THEN forEachDescendant(tree, n, i + 1,
            forEachDescendant(tree, i, i + 1, visit(tree[i], complexity)))
    ELSE forEachDescendant(tree, n, i + 1, complexity)

RECURSIVE forEachChild(_, _, _, _)
forEachChild(tree, n, i, complexity) ==
    IF i > Len(tree) THEN complexity
    ELSE forEachChild(tree, n, i + 1,
            IF tree[i].parent = n THEN visit(tree[i], complexity) ELSE complexity)

\* calculateComplexity looking at the statements of the body only
calculateComplexityShallow(func) == forEachChild(func.tree, 0, 1, 1)

\* extractor.ts:356-379
calculateComplexity(func) == forEachDescendant(func.tree, 0, 1, 1)

\* extractor.ts:259-298  null when anything thrown inside is caught
extractFunctionMetadata(func, filePath) ==
    IF func.fails THEN Null
    ELSE Some([name |-> func.name, filePath |-> filePath, line |-> func.line,
               isExported |-> TRUE,
               complexity |-> calculateComplexity(func),
               astHash |-> generateASTHash(func)])

\* extractor.ts:306-308
isExported(func) == func.exported

\* sourceFile.getFunctions(): the function declarations among the statements
\* of the file, not those nested in another function or in a class
getFunctions(sourceFile) == SelectSeq(sourceFile, LAMBDA d : d.level = "top")

\* the non-null results of extractFunctionMetadata over a list of declarations
extractAll(funcs, filePath) ==
    LET ok == SelectSeq(funcs, LAMBDA d : ~extractFunctionMetadata(d, filePath).isNull)
    IN [i \in 1..Len(ok) |-> extractFunctionMetadata(ok[i], filePath).value]

\* worker.ts:44-49  the loop of the worker over sourceFile.getFunctions()
workerExtract(sourceFile, filePath) == extractAll(getFunctions(sourceFile), filePath)

\* extractor.ts:224-250
extractMetadata(sourceFile, filePath) ==
    extractAll(SelectSeq(getFunctions(sourceFile), isExported), filePath)

(* ------------------------ extraction of a file ------------------------ *)
SeqsUpTo(S, n) == UNION {[1..k -> S] : k \in 0..n}

\* the declaration at position i of its file
Decl(i, exported, level, params, body, tree, fails) ==
    [name |-> i, line |-> i, exported |-> exported, level |-> level,
     params |-> params, body |-> body, tree |-> tree, fails |-> fails]

\* parameter lists: x, y and p, q; str and text
ParamNames == {<<"x", "y">>, <<"p", "q">>, <<"str">>, <<"text">>}
BodyTokens(arity) ==
    {ParamRef(i) : i \in 1..arity}
    \cup {PropName("x"), PropName("length"), NumLit, StrLit, Comment}

\* two exported functions with one body, the parameters of the second named
\* differently
HashSources(maxTokens) ==
    {<<Decl(1, TRUE, "top", ns1, body, <<>>, FALSE),
       Decl(2, TRUE, "top", ns2, body, <<>>, FALSE)>> :
        ns1 \in ParamNames,
        ns2 \in {ns \in ParamNames : Len(ns) = 1},
        body \in SeqsUpTo(BodyTokens(1), maxTokens)}
    \cup
    {<<Decl(1, TRUE, "top", ns1, body, <<>>, FALSE),
       Decl(2, TRUE, "top", ns2, body, <<>>, FALSE)>> :
        ns1 \in {ns \in ParamNames : Len(ns) = 2},
        ns2 \in {ns \in ParamNames : Len(ns) = 2},
        body \in SeqsUpTo(BodyTokens(2), maxTokens)}

\* files whose declarations are exported or not, top-level or nested,
\* readable or not
PlainDecls ==
    [exported : BOOLEAN, level : {"top", "nested"}, fails : BOOLEAN]
ExportSources(maxDecls) ==
    {[i \in 1..Len(ds) |->
        Decl(i, ds[i].exported, ds[i].level, <<>>, <<>>, <<>>, ds[i].fails)] :
        ds \in SeqsUpTo(PlainDecls, maxDecls)}

\* one declaration and the nodes below it
Trees(maxNodes) ==
    {t \in SeqsUpTo([kind : DecisionKinds \cup OtherKinds, parent : 0..(maxNodes - 1)],
                    maxNodes) :
        \A i \in DOMAIN t : t[i].parent < i}
TreeSources(maxNodes) ==
    {<<Decl(1, TRUE, "top", <<>>, <<>>, t, FALSE)>> : t \in Trees(maxNodes)}

ExtractInit ==
    /\ RunIdle
    /\ ApiIdle
    /\ DupIdle
    /\ CmdIdle
    /\ ScanIdle
    /\ GraphIdle
    /\ fs = [p \in Paths |-> [kind |-> "ok", mtime |-> 1, body |-> 1]]
    /\ disk = NoDisk
    /\ cache = EmptyCache
    /\ muts = 0
    /\ source \in HashSources(MaxTokens) \cup ExportSources(MaxDecls)
                 \cup TreeSources(MaxNodes)
    /\ records = NoRecords

\* worker.ts:41-49  the worker extracts the records of the file
WorkerExtract ==
    /\ records.via = "none"
    /\ records' = [via |-> "worker", list |-> workerExtract(source, 1)]
    /\ UNCHANGED <<runVars, apiVars, dupVars, cmdVars, scan, source, depInput,
                 graph>>

\* extractor.ts:224-250  the file goes through extractMetadata
CallExtractMetadata ==
    /\ records.via = "none"
    /\ records' = [via |-> "extractMetadata", list |-> extractMetadata(source, 1)]
    /\ UNCHANGED <<runVars, apiVars, dupVars, cmdVars, scan, source, depInput,
                 graph>>

\* scan.ts:61-82  the records of the scan are handed to createRegistry
Collect ==
    /\ records.via # "none"
    /\ dupPc = "off"
    /\ dupInput' = records.list
    /\ dupPc' = "input"
    /\ UNCHANGED <<runVars, apiVars, duplicates, extVars, cmdVars>>

ExtractNext ==
    \/ WorkerExtract
    \/ CallExtractMetadata
    \/ Collect
    \/ Detect

ExtractSpec == ExtractInit /\ [][ExtractNext]_vars

(* -------------------------- dependencies.ts --------------------------- *)
\* A function handed to buildDependencyGraph is [name, isExported, exprs],
\* exprs the call expressions below its declaration in its source file, each
\* [callee, dotted]: the name called and whether the expression text holds a
\* '.' or a '(' (a method call, a call of a call). Names are 1, 2, ... in
\* alphabetical order; UnknownCallee names no function of the scan.
UnknownCallee == 0

\* dependencies.ts:49-76
extractFunctionCalls(exprs) ==
    LET simple == SelectSeq(exprs, LAMBDA e : ~e.dotted)
    IN [i \in 1..Len(simple) |-> [callee |-> simple[i].callee, line |-> i]]

\* a Map<string, DependencyNode> as its nodes in insertion order
nodesHas(nodes, name) == \E i \in DOMAIN nodes : nodes[i].function.name = name
nodesGet(nodes, name) == nodes[CHOOSE i \in DOMAIN nodes : nodes[i].function.name = name]

\* nodes.set(func.name, node): a name already in the Map keeps its place and
\* takes the new node
nodesSet(nodes, node) ==
    IF nodesHas(nodes, node.function.name)
    THEN [i \in DOMAIN nodes |->
            IF nodes[i].function.name = node.function.name THEN node ELSE nodes[i]]
    ELSE Append(nodes, node)

\* dependencies.ts:92-103
RECURSIVE initNodesFrom(_, _)
initNodesFrom(functions, nodes) ==
    IF functions = <<>> THEN nodes
    ELSE LET func == Head(functions)
             calls == extractFunctionCalls(func.exprs)
         IN initNodesFrom(Tail(functions),
                nodesSet(nodes,
                    [function |-> [name |-> func.name,
                                   filePath |-> func.filePath,
                                   isExported |-> func.isExported],
                     calls |-> calls,
                     calledBy |-> <<>>,
                     isUsed |-> FALSE,
                     hasDependencies |-> Len(calls) > 0]))
initNodes(functions) == initNodesFrom(functions, <<>>)

\* the orphan filter looking at the export flag only
orphansOfUnexported(nodes) == SelectSeq(nodes, LAMBDA node : ~node.function.isExported)

\* dependencies.ts:117-119
orphansOf(nodes) ==
    SelectSeq(nodes, LAMBDA node : ~node.isUsed /\ ~node.function.isExported)

\* the entry-point filter looking at the export flag only
entryPointsOfExported(nodes) == SelectSeq(nodes, LAMBDA node : node.function.isExported)

\* the entry-point filter counting the calls of known functions only
entryPointsOfTracked(nodes) ==
    SelectSeq(nodes, LAMBDA node :
        /\ node.function.isExported
        /\ \A k \in DOMAIN node.calls :
              \A i \in DOMAIN nodes : nodes[i].function.name # node.calls[k].callee)

\* dependencies.ts:122-124
entryPointsOf(nodes) ==
    SelectSeq(nodes, LAMBDA node : node.function.isExported /\ ~node.hasDependencies)

\* dependencies.ts:107-113  the calls of one node
RECURSIVE reverseCalls(_, _, _, _)
reverseCalls(nodes, functionName, calls, k) ==
    IF k > Len(calls) THEN nodes
    ELSE reverseCalls(
            [i \in DOMAIN nodes |->
                IF nodes[i].function.name = calls[k].callee
                THEN [nodes[i] EXCEPT !.calledBy = Append(@, functionName),
                                      !.isUsed = TRUE]
                ELSE nodes[i]],
            functionName, calls, k + 1)

\* dependencies.ts:106-114
RECURSIVE reverseEdges(_, _)
reverseEdges(nodes, n) ==
    IF n > Len(nodes) THEN nodes
    ELSE reverseEdges(
            reverseCalls(nodes, nodes[n].function.name, nodes[n].calls, 1), n + 1)

\* Array.prototype.indexOf, counted from 1; 0 when absent
indexOf(path, x) ==
    IF \E i \in DOMAIN path : path[i] = x
    THEN CHOOSE i \in DOMAIN path : path[i] = x /\ \A j \in 1..(i - 1) : path[j] # x
    ELSE 0

\* dependencies.ts:150-178  dfs; st is [visited, recursionStack, cycles]
RECURSIVE dfs(_, _, _, _)
RECURSIVE dfsCalls(_, _, _, _, _)
dfs(nodes, functionName, path, st) ==
    IF functionName \in st.recursionStack
    THEN LET cycleStart == indexOf(path, functionName)
         IN IF cycleStart >= 1
            THEN [st EXCEPT !.cycles =
                    Append(@, SubSeq(path, cycleStart, Len(path)) \o <<functionName>>)]
            ELSE st
    ELSE IF functionName \in st.visited THEN st
    ELSE LET st1 == [st EXCEPT !.visited = @ \cup {functionName},
                               !.recursionStack = @ \cup {functionName}]
             path1 == Append(path, functionName)
             st2 == IF nodesHas(nodes, functionName)
                    THEN dfsCalls(nodes, nodesGet(nodes, functionName).calls, 1, path1, st1)
                    ELSE st1
         IN [st2 EXCEPT !.recursionStack = @ \ {functionName}]

\* dependencies.ts:170-174
dfsCalls(nodes, calls, k, path, st) ==
    IF k > Len(calls) THEN st
    ELSE dfsCalls(nodes, calls, k + 1, path,
            IF nodesHas(nodes, calls[k].callee)
            THEN dfs(nodes, calls[k].callee, path, st)
            ELSE st)

\* the loop over the keys starting a search from the first key only
dfsRootsFirstOnly(nodes, n, st) ==
    IF nodes = <<>> THEN st ELSE dfs(nodes, nodes[1].function.name, <<>>, st)

\* dependencies.ts:180-184
RECURSIVE dfsRoots(_, _, _)
dfsRoots(nodes, n, st) ==
    IF n > Len(nodes) THEN st
    ELSE dfsRoots(nodes, n + 1,
            IF nodes[n].function.name \notin st.visited
            THEN dfs(nodes, nodes[n].function.name, <<>>, st)
            ELSE st)

\* Array.prototype.sort() on names: in place, alphabetical
sort(cycle) == SortSeq(cycle, LAMBDA a, b : a < b)

\* cycles.findIndex(c => text of c = text of cycle) === index, for each index
RECURSIVE firstOfEach(_, _, _)
firstOfEach(cycles, index, acc) ==
    IF index > Len(cycles) THEN acc
    ELSE firstOfEach(cycles, index + 1,
            IF \E j \in 1..(index - 1) : cycles[j] = cycles[index] THEN acc
            ELSE Append(acc, cycles[index]))

\* dependencies.ts:187-190  the filter sorts every cycle in place and keeps
\* the first of those with one sorted text
uniqueCycles(cycles) ==
    firstOfEach([i \in DOMAIN cycles |-> sort(cycles[i])], 1, <<>>)

\* dependencies.ts:143-193
detectCircularDependencies(nodes) ==
    uniqueCycles(dfsRoots(nodes, 1,
        [visited |-> {}, recursionStack |-> {}, cycles |-> <<>>]).cycles)

\* dependencies.ts:85-135
buildDependencyGraph(functions) ==
    LET nodes == reverseEdges(initNodes(functions), 1)
    IN [built |-> TRUE,
        nodes |-> nodes,
        orphans |-> orphansOf(nodes),
        entryPoints |-> entryPointsOf(nodes),
        circularDependencies |-> detectCircularDependencies(nodes)]

(* ----------------------- building the graph -------------------------- *)
\* the members of a set of names in alphabetical order
ascending(S) ==
    [k \in 1..Cardinality(S) |->
        CHOOSE i \in S : Cardinality({j \in S : j < i}) = k - 1]

\* the call expressions of a function: a bare call of each name of callees,
\* then none, a bare call of a name outside the scan, or a method call
callExprs(callees, extra) ==
    [k \in 1..Cardinality(callees) |-> [callee |-> ascending(callees)[k], dotted |-> FALSE]]
    \o (IF extra = "unknown" THEN <<[callee |-> UnknownCallee, dotted |-> FALSE]>>
        ELSE IF extra = "method" THEN <<[callee |-> 1, dotted |-> TRUE]>>
        ELSE <<>>)

FunctionsOf(n, Exported, Extras) ==
    {[i \in 1..n |-> [name |-> i, filePath |-> 1,
                      isExported |-> c[i].isExported,
                      exprs |-> callExprs(c[i].callees, c[i].extra)]] :
        c \in [1..n -> [isExported : Exported, callees : SUBSET (1..n),
                        extra : Extras]]}

\* functions of several files, two to a file, some of which share their
\* name with a function of another file: the names alternate between 1 and 2
SameNamedFunctions(n) ==
    {[i \in 1..n |-> [name |-> ((i - 1) % 2) + 1, filePath |-> (i + 1) \div 2,
                      isExported |-> c[i].isExported,
                      exprs |-> callExprs(c[i].callees, "none")]] :
        c \in [1..n -> [isExported : BOOLEAN, callees : SUBSET (1..2)]]}

GraphIdleInit ==
    /\ RunIdle
    /\ FilesIdle
    /\ ApiIdle
    /\ DupIdle
    /\ CmdIdle
    /\ ScanIdle
    /\ SourceIdle
    /\ graph = NoGraph

GraphInit ==
    /\ GraphIdleInit
    \* functions exported or not, calling names of the scan and others; or
    \* any call graph over the names
    /\ \/ \E n \in 0..(MaxFuncs - 1) :
             depInput \in FunctionsOf(n, BOOLEAN, {"none", "unknown", "method"})
       \/ \E n \in 0..MaxFuncs : depInput \in FunctionsOf(n, {FALSE}, {"none"})

MergeInit ==
    /\ GraphIdleInit
    /\ depInput \in SameNamedFunctions(MaxFuncs)

\* graph.ts  the graph command calls buildDependencyGraph on the registry's
\* functions
BuildGraph ==
    /\ ~graph.built
    /\ graph' = buildDependencyGraph(depInput)
    /\ UNCHANGED <<runVars, apiVars, dupVars, cmdVars, scan, source, records,
                 depInput>>

GraphNext == BuildGraph

GraphSpec == GraphInit /\ [][GraphNext]_vars

\* the same command on a registry with same-named functions
MergeSpec == MergeInit /\ [][GraphNext]_vars

(* ======================= claims: the parse run ======================== *)
Dispatched == UNION {Range(chunks[k]) : k \in DOMAIN chunks}
ResultsOf(p) == {i \in DOMAIN results : results[i].filePath = p}
FailedInWorker ==
    UNION {{worker[w].value.errors[i].filePath : i \in DOMAIN worker[w].value.errors} :
             w \in DOMAIN worker}
Crashed == {w \in DOMAIN worker : worker[w].st = "crashed"}

\* C1: when a worker crashes before posting its result, parseFiles still
\* completes: it does not throw, the crashed chunk's files surface as failed
\* and every file of another chunk has its result returned.
C1_CrashFailsOnlyItsChunk ==
    Crashed # {} =>
        /\ pc # "thrown"
        /\ pc = "returned" =>
              \A w \in DOMAIN worker : \A p \in Range(chunks[w]) :
                 \E i \in ResultsOf(p) :
                    (w \in Crashed) = (results[i].error # NoError)

\* C2: when some files fail to parse inside a worker, parseFiles returns,
\* each failed file has a result carrying an error and no successful result,
\* and every other dispatched file has exactly one result, a successful one.
C2_FailedFilesOnlyInFailureList ==
    pc = "returned" =>
        \A p \in Dispatched :
            IF p \in FailedInWorker
            THEN /\ \E i \in ResultsOf(p) : results[i].error # NoError
                 /\ \A i \in ResultsOf(p) : results[i].error # NoError
            ELSE /\ Cardinality(ResultsOf(p)) = 1
                 /\ \A i \in ResultsOf(p) : results[i].error = NoError

\* C3: with caching enabled a file is dispatched to a worker iff
\* isFileCached is false for it at classification; every file for which it is
\* true is served from the cache (one result, the cached records, no error)
\* and is not dispatched; the hit count is the number of such files and the
\* dispatched count is the rest.
C3_DispatchedIffNotCached ==
    [][(runs' = runs + 1 /\ useCache') =>
        LET hits == {p \in Range(filePaths') : isFileCached(p, cache', fs)}
            sent == UNION {Range(chunks'[k]) : k \in DOMAIN chunks'}
        IN /\ \A p \in Range(filePaths') : (p \in sent) <=> (p \notin hits)
           /\ \A p \in hits :
                \E i \in DOMAIN results' :
                    /\ results'[i].filePath = p
                    /\ results'[i].metadata = cache'.entries[p].functions
                    /\ results'[i].error = NoError
           /\ Len(cachedFiles') = Cardinality(hits)
           /\ Cardinality(sent) = Len(filePaths') - Cardinality(hits)
           /\ Len(results') = Cardinality(hits)]_vars

C3_Witness ==
    /\ pc = "waiting"
    /\ useCache
    /\ Len(cachedFiles) = NumFiles - 1
    /\ Cardinality(Dispatched) = 1
    /\ Len(results) = NumFiles - 1

\* C6: the step that aggregates the workers' results creates or replaces a
\* cache entry only for a dispatched file a worker parsed successfully: a
\* file listed in a worker's errors keeps what it had.
C6_EntryOnlyForSuccessfulParse ==
    [][(pc = "waiting" /\ pc' = "returned") =>
        \A p \in Paths :
            (/\ p \in DOMAIN cache'.entries
             /\ (p \in DOMAIN cache.entries => cache'.entries[p] # cache.entries[p]))
            => (p \in Dispatched /\ p \notin FailedInWorker)]_vars

\* C7: from the start of a run up to and including a worker's crash the
\* cache file is not written and the run's cache gets no entry: what was
\* committed stays as it was.
C7_CrashLeavesCommittedCache ==
    [][/\ (pc' = "waiting" \/ (pc = "waiting" /\ pc' = "thrown")) => disk' = disk
       /\ (pc = "waiting" /\ pc' \in {"waiting", "thrown"}) => cache' = cache]_vars

C7_Witness ==
    /\ pc = "thrown"
    /\ useCache
    /\ Crashed # {}
    /\ \E w \in DOMAIN worker : worker[w].st = "posted"
    /\ disk.kind = "doc"
    /\ DOMAIN disk.entries # {}

\* C8: a run with caching enabled that finds no cache file, an unreadable
\* one, or one of another schema version starts from a cache with zero
\* entries and dispatches every file.
C8_ColdRunOnUnusableCacheFile ==
    [][(runs' = runs + 1 /\ useCache'
        /\ (disk.kind # "doc" \/ disk.version # CACHE_VERSION)) =>
        /\ DOMAIN cache'.entries = {}
        /\ cachedFiles' = <<>>
        /\ uncachedFiles' = filePaths'
        /\ UNION {Range(chunks'[k]) : k \in DOMAIN chunks'} = Range(filePaths')]_vars

C8_Witness ==
    /\ pc = "waiting"
    /\ useCache
    /\ disk.kind = "doc"
    /\ disk.version # CACHE_VERSION
    /\ \E p \in DOMAIN disk.entries :
          fs[p].kind = "ok" /\ fs[p].mtime = disk.entries[p].mtime
    /\ DOMAIN cache.entries = {}
    /\ Dispatched = Range(filePaths)

\* C20: a scan invoked with --no-cache, with or without a configuration
\* file, serves no file from the cache and dispatches every file, and from
\* its start to its end the cache file is not read (the run's cache has no
\* entry from it) and not written.
C20_NoCacheFlagBypassesCache ==
    [][/\ (runs' = runs + 1 /\ scan.noCache) =>
            /\ cachedFiles' = <<>>
            /\ uncachedFiles' = filePaths'
            /\ UNION {Range(chunks'[k]) : k \in DOMAIN chunks'} = Range(filePaths')
            /\ DOMAIN cache'.entries = {}
            /\ disk' = disk
       /\ (pc = "waiting" /\ scan.run = runs /\ scan.noCache) => disk' = disk]_vars

(* ===================== claims: the incremental cache ================== *)
\* C4: isFileCached(path) returns true iff the cache holds an entry for path
\* and stat succeeds with the modification time the entry stores; so it is
\* false when the time differs from the stored one and when stat fails.
C4_IsFileCachedIffEntryAndSameMtime ==
    last.op = "isFileCached" =>
        (last.cached <=>
            /\ last.path \in DOMAIN cache.entries
            /\ fs[last.path].kind # "missing"
            /\ fs[last.path].mtime = cache.entries[last.path].mtime)

C4_Witness ==
    /\ last.op = "isFileCached"
    /\ ~last.cached
    /\ last.path \in DOMAIN cache.entries
    /\ fs[last.path].kind # "missing"
    /\ fs[last.path].mtime > cache.entries[last.path].mtime

\* C5 as claimed: for every path and record list, after
\* updateCacheEntry(path, records) with no modification of the file since,
\* isFileCached(path) returns true and getCachedFunctions(path) the records.
C5_PutThenCachedForEveryPath ==
    (fresh.valid /\ last.path = fresh.path) =>
        /\ last.op = "isFileCached" => last.cached
        /\ last.op = "getCachedFunctions" => last.got = Some(fresh.functions)

\* C5 amended: for every path whose stat succeeds and every record list,
\* after updateCacheEntry(path, records) with no modification of the file
\* since, isFileCached(path) returns true and getCachedFunctions(path)
\* returns exactly those records.
C5_PutThenCachedWhenStatSucceeds ==
    (fresh.valid /\ last.path = fresh.path /\ ~statFails(fresh.path, fs)) =>
        /\ last.op = "isFileCached" => last.cached
        /\ last.op = "getCachedFunctions" => last.got = Some(fresh.functions)

C5_Witness ==
    /\ fresh.valid
    /\ last.path = fresh.path
    /\ ~statFails(fresh.path, fs)
    /\ last.op = "getCachedFunctions"
    /\ fresh.functions # <<>>
    /\ fs[fresh.path].mtime > 1

\* C9: when stat fails inside updateCacheEntry(path, records) the cache is
\* left as it was, a pre-existing entry for path included, and nothing is
\* raised.
C9_StatFailureLeavesCache ==
    [][(last'.op = "updateCacheEntry" /\ statFails(last'.path, fs)) =>
        (cache' = cache /\ ~last'.raised)]_vars

C9_Witness ==
    /\ last.op = "updateCacheEntry"
    /\ statFails(last.path, fs)
    /\ last.path \in DOMAIN cache.entries
    /\ cache.entries[last.path].functions # last.functions

(* ===================== claims: duplicate detection ==================== *)
ExactGroups == {i \in DOMAIN duplicates :
                  duplicates[i].similarity.num = duplicates[i].similarity.den}
InputWithHash(h) == {i \in DOMAIN dupInput : dupInput[i].astHash = h}
SharedHashes == {h \in {dupInput[i].astHash : i \in DOMAIN dupInput} :
                   Cardinality(InputWithHash(h)) >= 2}

\* C10: the exact-duplicate groups returned by detectDuplicates (those of
\* similarity 1.0) are exactly the classes of records sharing one full hash
\* that have at least 2 members: one group per such hash, keyed by it,
\* listing all and only the records with that hash, each once.
C10_ExactGroupsAreHashClasses ==
    dupPc = "done" =>
        /\ \A h \in SharedHashes :
              Cardinality({i \in ExactGroups : duplicates[i].astHash = h}) = 1
        /\ \A i \in ExactGroups :
              LET g == duplicates[i]
              IN /\ g.astHash \in SharedHashes
                 /\ g.similarity = One
                 /\ Len(g.functions) >= 2
                 /\ Len(g.functions) = Cardinality(InputWithHash(g.astHash))
                 /\ Range(g.functions) =
                       {reference(dupInput[k]) : k \in InputWithHash(g.astHash)}

C10_Witness ==
    /\ dupPc = "done"
    /\ \E i \in ExactGroups : Len(duplicates[i].functions) = 2
    /\ \E i \in DOMAIN duplicates : i \notin ExactGroups
    /\ Len(dupInput) = 3

NearGroups ==
    {i \in DOMAIN duplicates :
        i > Len(exactGroups(groupByKey(dupInput, hashOf, <<>>)))}
\* the record of the input a group member refers to
InputOf(ref) ==
    dupInput[CHOOSE k \in DOMAIN dupInput : reference(dupInput[k]) = ref]

\* C11: every group findNearDuplicates contributes has exactly 2 members,
\* the two are records of the input with different full hashes, and its
\* similarity s satisfies 0.85 <= s < 1.0.
C11_NearGroupsArePairsInRange ==
    dupPc = "done" =>
        \A i \in NearGroups :
            LET g == duplicates[i]
            IN /\ Len(g.functions) = 2
               /\ \A k \in 1..2 :
                     \E n \in DOMAIN dupInput : reference(dupInput[n]) = g.functions[k]
               /\ InputOf(g.functions[1]).astHash # InputOf(g.functions[2]).astHash
               /\ g.similarity.num * ThresholdDen >= ThresholdNum * g.similarity.den
               /\ g.similarity.num < g.similarity.den

\* a scan with a near pair reported and a pair of one prefix group left out
C11_Witness ==
    /\ dupPc = "done"
    /\ NearGroups # {}
    /\ \E a, b \in DOMAIN dupInput :
          /\ a < b
          /\ prefixOf(dupInput[a]) = prefixOf(dupInput[b])
          /\ dupInput[a].astHash # dupInput[b].astHash
          /\ ~atLeastThreshold(calculateSimilarity(dupInput[a].astHash,
                                                   dupInput[b].astHash))

\* the near-duplicate groups whose two members are the records at i and j
GroupsOfPair(i, j) ==
    {g \in NearGroups :
        /\ Len(duplicates[g].functions) = 2
        /\ {duplicates[g].functions[1], duplicates[g].functions[2]}
               = {reference(dupInput[i]), reference(dupInput[j])}}
LongerLen(h1, h2) == IF Len(h1) > Len(h2) THEN Len(h1) ELSE Len(h2)
\* same 8-character prefix, different full hashes, (L - d) / L >= 0.85
NearPair(i, j) ==
    LET h1 == dupInput[i].astHash
        h2 == dupInput[j].astHash
        L == LongerLen(h1, h2)
        d == IF Len(h1) > Len(h2) THEN levenshteinDistance(h1, h2)
                                   ELSE levenshteinDistance(h2, h1)
    IN /\ SubSeq(h1, 1, 8) = SubSeq(h2, 1, 8)
       /\ h1 # h2
       /\ (L - d) * 100 >= 85 * L

RenamedPair(f, g) ==
    /\ f.body = g.body
    /\ Len(f.params) = Len(g.params)
    /\ f.exported /\ g.exported
    /\ f.level = "top" /\ g.level = "top"
    /\ ~f.fails /\ ~g.fails
GroupsBoth(d) ==
    /\ d.similarity = One
    /\ \E a, b \in DOMAIN d.functions :
          d.functions[a].name = 1 /\ d.functions[b].name = 2

\* C12: two functions whose bodies are identical except that the declared
\* parameters are consistently renamed get equal structural hashes, and
\* detectDuplicates puts them in one exact-duplicate group of similarity 1.0.
C12_RenamedParametersHashEqual ==
    (/\ Len(source) = 2
     /\ RenamedPair(source[1], source[2])
     /\ records.via # "none") =>
        /\ Len(records.list) = 2
        /\ records.list[1].astHash = records.list[2].astHash
        /\ dupPc = "done" => \E i \in DOMAIN duplicates : GroupsBoth(duplicates[i])

DeclOf(r) == source[CHOOSE i \in DOMAIN source : source[i].name = r.name]

\* C18: every record extracted from a file, by the worker as well as by
\* extractMetadata, comes from a top-level function declaration that is
\* exported; a declaration that is not exported yields no record, and a
\* record's export flag is true only for an exported declaration.
C18_RecordsOnlyForExportedTopLevel ==
    records.via # "none" =>
        /\ \A k \in DOMAIN records.list :
              LET r == records.list[k]
              IN /\ \E i \in DOMAIN source : source[i].name = r.name
                 /\ DeclOf(r).level = "top"
                 /\ DeclOf(r).exported
                 /\ r.isExported => DeclOf(r).exported
        /\ \A i \in DOMAIN source :
              ~source[i].exported =>
                 \A k \in DOMAIN records.list : records.list[k].name # source[i].name

\* if, ternary, case label, for, for-in, for-of, while, do, catch
CountedConstructs ==
    {"IfStatement", "ConditionalExpression", "CaseClause", "ForStatement",
     "ForInStatement", "ForOfStatement", "WhileStatement", "DoStatement",
     "CatchClause"}
ConstructsBelow(d) == {i \in DOMAIN d.tree : d.tree[i].kind \in CountedConstructs}

NodeNames(list) == {list[i].function.name : i \in DOMAIN list}

\* C13: in the graph returned by buildDependencyGraph a node is in the
\* orphan list iff its calledBy list is empty and its function is not
\* exported.
C13_OrphanIffUncalledAndNotExported ==
    graph.built =>
        \A i \in DOMAIN graph.nodes :
            LET node == graph.nodes[i]
            IN (\E k \in DOMAIN graph.orphans : graph.orphans[k] = node)
               <=> (node.calledBy = <<>> /\ ~node.function.isExported)

\* an orphan calling a function that is not exported either
C13_Witness ==
    /\ graph.built
    /\ Len(graph.orphans) = 1
    /\ \E i \in DOMAIN graph.nodes :
          /\ ~graph.nodes[i].function.isExported
          /\ graph.nodes[i].calledBy = <<graph.orphans[1].function.name>>

CallsHelper(a, b) ==
    /\ a.function.isExported
    /\ \E k \in DOMAIN a.calls : a.calls[k].callee = b.function.name
    /\ ~b.function.isExported
    /\ b.calls = <<>>

\* C15 as claimed: when an exported function a calls b, and b calls nothing
\* and is not exported, b is in the orphan list and a is neither in the
\* orphan list nor in the entry-point list.
C15_CalledHelperIsOrphan ==
    graph.built =>
        \A i, j \in DOMAIN graph.nodes :
            CallsHelper(graph.nodes[i], graph.nodes[j]) =>
                /\ graph.nodes[j] \in Range(graph.orphans)
                /\ graph.nodes[i] \notin Range(graph.orphans)
                /\ graph.nodes[i] \notin Range(graph.entryPoints)

\* C15 amended: when an exported function a calls b, and b calls nothing and
\* is not exported, b has a as a caller and is in neither list (it is no
\* orphan, being called), and a is neither in the orphan list nor in the
\* entry-point list.
C15_CalledHelperIsNoOrphan ==
    graph.built =>
        \A i, j \in DOMAIN graph.nodes :
            CallsHelper(graph.nodes[i], graph.nodes[j]) =>
                /\ graph.nodes[i].function.name \in Range(graph.nodes[j].calledBy)
                /\ graph.nodes[j] \notin Range(graph.orphans)
                /\ graph.nodes[j] \notin Range(graph.entryPoints)
                /\ graph.nodes[i] \notin Range(graph.orphans)
                /\ graph.nodes[i] \notin Range(graph.entryPoints)

\* the scan of the scenario: a and b alone, a's only call being that of b
C15_Witness ==
    /\ graph.built
    /\ Len(graph.nodes) = 2
    /\ CallsHelper(graph.nodes[1], graph.nodes[2])
    /\ Len(graph.nodes[1].calls) = 1
    /\ graph.nodes[1].calledBy = <<>>
    /\ graph.orphans = <<>>
    /\ graph.entryPoints = <<>>

\* the call edges between the nodes of the graph
Known == NodeNames(graph.nodes)
Callees(a) ==
    {nodesGet(graph.nodes, a).calls[k].callee :
        k \in DOMAIN nodesGet(graph.nodes, a).calls} \cap Known
RECURSIVE CalleesClosure(_)
CalleesClosure(S) ==
    LET T == S \cup UNION {Callees(a) : a \in S}
    IN IF T = S THEN S ELSE CalleesClosure(T)
\* the names reached from a by one call or more
Reaches(a) == CalleesClosure(Callees(a))
\* the strongly-connected regions that contain a cycle
CyclicRegions ==
    {{b \in Reaches(a) : a \in Reaches(b)} : a \in {n \in Known : n \in Reaches(n)}}
\* a region that is one ring of calls
IsRing(R) == \A a \in R : Cardinality(Callees(a) \cap R) = 1

\* C16: for every call graph over known nodes the list of circular
\* dependencies holds, for each strongly-connected region that contains a
\* cycle, at least one cycle whose names all lie in the region (all the
\* names of the region when it is a single ring such as a->b->c->a), and the
\* list is empty when the graph is acyclic.
C16_CycleReportedPerCyclicRegion ==
    graph.built =>
        /\ \A R \in CyclicRegions :
              \E k \in DOMAIN graph.circularDependencies :
                 LET c == graph.circularDependencies[k]
                 IN /\ c # <<>>
                    /\ Range(c) \subseteq R
                    /\ IsRing(R) => Range(c) = R
        /\ CyclicRegions = {} => graph.circularDependencies = <<>>

\* two cyclic regions, the second out of reach of the first function, one
\* of them with more than one cycle
C16_Witness ==
    /\ graph.built
    /\ Cardinality(CyclicRegions) = 2
    /\ 1 \in Reaches(1)
    /\ \E R \in CyclicRegions : R \cap Reaches(1) = {} /\ ~IsRing(R)
    /\ Len(graph.circularDependencies) >= 2

\* the ring a -> b -> c -> a
C16_RingWitness ==
    /\ graph.built
    /\ CyclicRegions = {{1, 2, 3}}
    /\ IsRing({1, 2, 3})
    /\ Len(graph.circularDependencies) = 1

\* C17: every cycle of the circularDependencies list is a closing name
\* sequence: its first and last names are equal and every consecutive pair
\* of names is a call edge of the graph.
C17_CyclesAreClosingSequences ==
    graph.built =>
        \A k \in DOMAIN graph.circularDependencies :
            LET c == graph.circularDependencies[k]
            IN /\ Len(c) >= 2
               /\ c[1] = c[Len(c)]
               /\ \A i \in 1..(Len(c) - 1) : c[i + 1] \in Callees(c[i])

\* ---------------------------------------------------------------------
\* git.ts: comparing two registries
\* ---------------------------------------------------------------------
\* strings that are concatenated are sequences of character codes
Colon == 58
getFunctionKey(fn) == fn.name \o <<Colon>> \o fn.filePath

\* the first position at which the two parameter lists differ, if any
paramsDiffer(before, after) ==
    \E i \in DOMAIN before.params :
        /\ i \in DOMAIN after.params
        /\ \/ before.params[i].name # after.params[i].name
           \/ before.params[i].type # after.params[i].type
           \/ before.params[i].optional # after.params[i].optional
hasSignatureChanged(before, after) ==
    IF Len(before.params) # Len(after.params) THEN TRUE
    ELSE IF paramsDiffer(before, after) THEN TRUE
    ELSE before.returnType # after.returnType

\* a Map<string, FunctionMetadata>: its entries in insertion order
registryHas(m, key) == \E i \in DOMAIN m : m[i].key = key
registryGet(m, key) == m[keyIndex(m, key)].value
registrySet(m, key, value) ==
    IF registryHas(m, key)
    THEN [m EXCEPT ![keyIndex(m, key)].value = value]
    ELSE Append(m, [key |-> key, value |-> value])
RECURSIVE indexRegistry(_, _)
indexRegistry(functions, m) ==
    IF functions = <<>> THEN m
    ELSE indexRegistry(Tail(functions),
                       registrySet(m, getFunctionKey(Head(functions)), Head(functions)))

valuesOf(entries) == [i \in DOMAIN entries |-> entries[i].value]
compareRegistries(baseRegistry, headRegistry) ==
    LET baseMap == indexRegistry(baseRegistry.functions, <<>>)
        headMap == indexRegistry(headRegistry.functions, <<>>)
        isAdded(e) == ~registryHas(baseMap, e.key)
        isModified(e) ==
            /\ registryHas(baseMap, e.key)
            /\ registryGet(baseMap, e.key).astHash # e.value.astHash
        isUnchanged(e) ==
            /\ registryHas(baseMap, e.key)
            /\ registryGet(baseMap, e.key).astHash = e.value.astHash
        changed == SelectSeq(headMap, isModified)
    IN  [added |-> valuesOf(SelectSeq(headMap, isAdded)),
         modified |->
            [i \in DOMAIN changed |->
                [before |-> registryGet(baseMap, changed[i].key),
                 after |-> changed[i].value,
                 complexityDelta |-> changed[i].value.complexity
                     - registryGet(baseMap, changed[i].key).complexity,
                 signatureChanged |->
                     hasSignatureChanged(registryGet(baseMap, changed[i].key),
                                         changed[i].value)]],
         deleted |-> valuesOf(SelectSeq(baseMap,
                                        LAMBDA e : ~registryHas(headMap, e.key))),
         unchanged |-> valuesOf(SelectSeq(headMap, isUnchanged))]

\* ---------------------------------------------------------------------
\* The comparison specification: two registries of at most MaxDiffFns
\* functions together; a registry is whatever a registry file holds, so two
\* of its functions may carry the same name and file path
\* ---------------------------------------------------------------------
MaxDiffFns == 3
DiffNames == {<<1>>, <<2>>}
DiffFiles == {<<3>>, <<4>>}
OneParam == <<[name |-> "x", type |-> "string", optional |-> FALSE]>>
Versions ==
    {[astHash |-> 1, complexity |-> 1, params |-> <<>>, returnType |-> "void"],
     [astHash |-> 2, complexity |-> 3, params |-> <<>>, returnType |-> "void"],
     [astHash |-> 3, complexity |-> 2, params |-> OneParam, returnType |-> "void"]}
DiffFunctions ==
    {[name |-> n, filePath |-> f, astHash |-> v.astHash,
      complexity |-> v.complexity, params |-> v.params,
      returnType |-> v.returnType] : n \in DiffNames, f \in DiffFiles, v \in Versions}

DiffInit ==
    /\ RunIdle
    /\ FilesIdle
    /\ ApiIdle
    /\ DupIdle
    /\ ExtIdle
    /\ ImpactIdle
    /\ WatchIdle
    /\ diff = NoDiff
    /\ \E nb \in 0..MaxDiffFns : \E nh \in 0..(MaxDiffFns - nb) :
         \E b \in [1..nb -> DiffFunctions] : \E h \in [1..nh -> DiffFunctions] :
            diffInput = [base |-> [functions |-> b], head |-> [functions |-> h]]

Compare ==
    /\ ~diff.compared
    /\ diff' = [compared |-> TRUE]
               @@ compareRegistries(diffInput.base, diffInput.head)
    /\ UNCHANGED <<runVars, apiVars, dupVars, extVars, diffInput, impactVars,
                   watchVars>>

DiffNext == Compare

DiffSpec == DiffInit /\ [][DiffNext]_vars

\* ---------------------------------------------------------------------
\* C21
\* ---------------------------------------------------------------------
Base == diffInput.base.functions
HeadFns == diffInput.head.functions
SameKey(f, g) == f.name = g.name /\ f.filePath = g.filePath
Afters == [i \in DOMAIN diff.modified |-> diff.modified[i].after]
Befores == [i \in DOMAIN diff.modified |-> diff.modified[i].before]
Holds(list, f) == \E i \in DOMAIN list : list[i] = f

HeadPartitioned ==
    /\ Len(diff.added) + Len(diff.modified) + Len(diff.unchanged) = Len(HeadFns)
    /\ \A i \in DOMAIN HeadFns :
        LET f == HeadFns[i] IN
        /\ Holds(diff.added, f) <=> ~\E b \in Range(Base) : SameKey(b, f)
        /\ Holds(Afters, f) <=>
               \E b \in Range(Base) : SameKey(b, f) /\ b.astHash # f.astHash
        /\ Holds(diff.unchanged, f) <=>
               \E b \in Range(Base) : SameKey(b, f) /\ b.astHash = f.astHash
        /\ Cardinality({l \in {diff.added, Afters, diff.unchanged} :
                            Holds(l, f)}) = 1
BasePartitioned ==
    /\ Len(diff.deleted) + Len(diff.modified) + Len(diff.unchanged) = Len(Base)
    /\ \A i \in DOMAIN Base :
        LET b == Base[i]
            matched == \E u \in Range(diff.unchanged) :
                           SameKey(u, b) /\ u.astHash = b.astHash
        IN
        /\ Holds(diff.deleted, b) <=> ~\E f \in Range(HeadFns) : SameKey(b, f)
        /\ (IF Holds(diff.deleted, b) THEN 1 ELSE 0)
           + (IF Holds(Befores, b) THEN 1 ELSE 0)
           + (IF matched THEN 1 ELSE 0) = 1

\* C21: compareRegistries partitions the functions by (name, filePath):
\* every head function is exactly one of added (no base function with its
\* key), modified (a base function with its key and another astHash) or
\* unchanged (a base function with its key and the same astHash), and every
\* base function is exactly one of deleted (no head function with its key),
\* the "before" of a modified entry, or matched by an unchanged entry.
C21_DiffPartitionsBothRegistries ==
    diff.compared => HeadPartitioned /\ BasePartitioned

\* ---------------------------------------------------------------------
\* The chunking specification: parseFiles from the point where the files
\* are classified (parser.ts:143) to the dispatch of the workers, for every
\* number of uncached files up to MaxUncached on up to MaxParallelism cpus
\* ---------------------------------------------------------------------
MaxUncached == 45
MaxParallelism == 5

ChunkInit ==
    /\ ApiIdle
    /\ DupIdle
    /\ CmdIdle
    /\ ExtIdle
    /\ cpus \in 1..MaxParallelism
    /\ \E n \in 1..MaxUncached :
        /\ fs = [p \in 1..n |-> [kind |-> "ok", mtime |-> 1, body |-> 1]]
        /\ filePaths = [i \in 1..n |-> i]
    /\ disk = NoDisk
    /\ useCache = FALSE
    /\ pc = "classified"
    /\ cache = EmptyCache
    /\ cachedFiles = cachedOf(filePaths, useCache, cache, fs)
    /\ uncachedFiles = uncachedOf(filePaths, useCache, cache, fs)
    /\ chunks = <<>>
    /\ worker = <<>>
    /\ results = <<>>
    /\ runs = 1
    /\ muts = 0

\* parser.ts:146-157: the chunks, and one parseFilesInWorker call per chunk
Dispatch ==
    /\ pc = "classified"
    /\ uncachedFiles # <<>>
    /\ chunks' = makeChunks(uncachedFiles, cpus)
    /\ worker' = [k \in 1..Len(chunks') |-> NewWorker]
    /\ pc' = "waiting"
    /\ UNCHANGED <<apiVars, dupVars, extVars, cmdVars>>
    /\ UNCHANGED <<fs, disk, cpus, filePaths, useCache, cache, cachedFiles,
                   uncachedFiles, results, runs, muts>>

ChunkNext == Dispatch

ChunkSpec == ChunkInit /\ [][ChunkNext]_vars

\* ---------------------------------------------------------------------
\* C22
\* ---------------------------------------------------------------------
RECURSIVE Flatten(_)
Flatten(lists) ==
    IF lists = <<>> THEN <<>> ELSE Head(lists) \o Flatten(Tail(lists))

\* C22: for every number n >= 1 of uncached files and every parallelism
\* p >= 1, the chunks are non-empty, pairwise disjoint and contiguous, they
\* cover the uncached list in input order, there is exactly one worker per
\* chunk, and the number of workers never exceeds min(p, ceil(n / 10)).
C22_ChunksPartitionUncachedFiles ==
    pc = "waiting" =>
        /\ \A k \in DOMAIN chunks : chunks[k] # <<>>
        /\ Flatten(chunks) = uncachedFiles
        /\ \A j, k \in DOMAIN chunks :
               j # k => Range(chunks[j]) \cap Range(chunks[k]) = {}
        /\ Len(worker) = Len(chunks)
        /\ Len(worker) >= 1
        /\ 10 * (Len(worker) - 1) < Len(uncachedFiles)
        /\ Len(worker) <= cpus

\* several workers, the number of workers set by the number of files in one
\* case and by the number of cpus in the other, and a last chunk shorter
\* than the first
C22_Witness ==
    /\ pc = "waiting"
    /\ Len(chunks) = 3
    /\ Len(chunks) < cpus
    /\ Len(chunks[3]) < Len(chunks[1])

C22_WitnessCpuBound ==
    /\ pc = "waiting"
    /\ Len(chunks) = cpus
    /\ cpus = 2
    /\ Len(uncachedFiles) > 30

\* ---------------------------------------------------------------------
\* C29
\* ---------------------------------------------------------------------
\* C29: no two duplicate groups returned by detectDuplicates carry the same
\* key: exact groups are keyed by distinct full hashes and every
\* near-duplicate group has a synthetic key that differs from every other
\* group's.
C29_GroupKeysAreDistinct ==
    dupPc = "done" =>
        \A i, j \in DOMAIN duplicates :
            i # j => duplicates[i].astHash # duplicates[j].astHash

\* ---------------------------------------------------------------------
\* C24
\* ---------------------------------------------------------------------
\* the bare-identifier calls in the body of a function record
BareCallees(r) == {e.callee : e \in {x \in Range(r.exprs) : ~x.dotted}}
HasForwardEdge(caller, callee) ==
    /\ nodesHas(graph.nodes, caller)
    /\ \E c \in Range(nodesGet(graph.nodes, caller).calls) : c.callee = callee
HasReverseEdge(caller, callee) ==
    /\ nodesGet(graph.nodes, callee).isUsed
    /\ caller \in Range(nodesGet(graph.nodes, callee).calledBy)

\* C24: for every function record passed to buildDependencyGraph, records
\* sharing their name with a record of another file included, and every
\* bare-identifier call in its body whose callee is a node, the graph has
\* the forward edge caller -> callee and the reverse edge (the callee is
\* marked used and the caller's name is in its calledBy list).
C24_EveryTrackedCallHasBothEdges ==
    graph.built =>
        \A i \in DOMAIN depInput :
            \A callee \in BareCallees(depInput[i]) :
                nodesHas(graph.nodes, callee) =>
                    /\ HasForwardEdge(depInput[i].name, callee)
                    /\ HasReverseEdge(depInput[i].name, callee)

\* ---------------------------------------------------------------------
\* git.ts: the impact subgraph of a dependency graph
\* ---------------------------------------------------------------------
\* a Set<string> as its members in insertion order
setHas(set, name) == \E i \in DOMAIN set : set[i] = name

\* git.ts:750-755, 758-763  the names not yet relevant are added and queued
RECURSIVE addNeighbors(_, _, _)
addNeighbors(names, nextDepth, st) ==
    IF names = <<>> THEN st
    ELSE addNeighbors(Tail(names), nextDepth,
            IF setHas(st.relevantNodes, Head(names)) THEN st
            ELSE [relevantNodes |-> Append(st.relevantNodes, Head(names)),
                  queue |-> Append(st.queue, [name |-> Head(names),
                                              currentDepth |-> nextDepth])])

calleesOf(node) == [k \in DOMAIN node.calls |-> node.calls[k].callee]

\* git.ts:742-765  the breadth-first search
RECURSIVE bfs(_, _, _)
bfs(nodes, depth, st) ==
    IF st.queue = <<>> THEN st.relevantNodes
    ELSE LET item == Head(st.queue)
             rest == [st EXCEPT !.queue = Tail(st.queue)]
         IN IF item.currentDepth >= depth THEN bfs(nodes, depth, rest)
            ELSE IF ~nodesHas(nodes, item.name) THEN bfs(nodes, depth, rest)
            ELSE LET node == nodesGet(nodes, item.name)
                     up == addNeighbors(node.calledBy, item.currentDepth + 1, rest)
                 IN bfs(nodes, depth,
                        addNeighbors(calleesOf(node), item.currentDepth + 1, up))

\* git.ts:734-740  the focus functions that are nodes, each added once
RECURSIVE initQueue(_, _, _)
initQueue(nodes, focusFunctions, st) ==
    IF focusFunctions = <<>> THEN st
    ELSE initQueue(nodes, Tail(focusFunctions),
            IF ~nodesHas(nodes, Head(focusFunctions)) THEN st
            ELSE [relevantNodes |->
                      IF setHas(st.relevantNodes, Head(focusFunctions))
                      THEN st.relevantNodes
                      ELSE Append(st.relevantNodes, Head(focusFunctions)),
                  queue |-> Append(st.queue, [name |-> Head(focusFunctions),
                                              currentDepth |-> 0])])

\* git.ts:776
keptCalls(nodes, node, relevantNodes) ==
    SelectSeq(node.calls, LAMBDA call : setHas(relevantNodes, call.callee))

\* git.ts:768-780
filterNodes(nodes, relevantNodes) ==
    LET names == SelectSeq(relevantNodes, LAMBDA name : nodesHas(nodes, name))
    IN [i \in DOMAIN names |->
          LET node == nodesGet(nodes, names[i])
          IN [node EXCEPT
                !.calls = keptCalls(nodes, node, relevantNodes),
                !.calledBy = SelectSeq(node.calledBy,
                                 LAMBDA caller : setHas(relevantNodes, caller))]]

\* the search that follows the calls and not the callers
relevantOfDownstream(nodes, focusFunctions, depth) ==
    bfs([i \in DOMAIN nodes |-> [nodes[i] EXCEPT !.calledBy = <<>>]], depth,
        initQueue(nodes, focusFunctions, [relevantNodes |-> <<>>, queue |-> <<>>]))
relevantOf(nodes, focusFunctions, depth) ==
    bfs(nodes, depth,
        initQueue(nodes, focusFunctions, [relevantNodes |-> <<>>, queue |-> <<>>]))

\* git.ts:726-797
buildImpactSubgraph(g, focusFunctions, depth) ==
    LET relevantNodes == relevantOf(g.nodes, focusFunctions, depth)
        filteredNodes == filterNodes(g.nodes, relevantNodes)
    IN [built |-> TRUE,
        nodes |-> filteredNodes,
        orphans |-> SelectSeq(filteredNodes, LAMBDA node :
                        Len(node.calledBy) = 0 /\ ~node.function.isExported),
        entryPoints |-> SelectSeq(filteredNodes, LAMBDA node :
                        node.function.isExported /\ Len(node.calls) = 0),
        circularDependencies |-> <<>>]

\* ---------------------------------------------------------------------
\* The impact specification: the graph command with --focus
\* ---------------------------------------------------------------------
MaxDepth == 2

\* function i calls any of the functions i .. n
UpwardFunctions(n) ==
    {[i \in 1..n |-> [name |-> i, filePath |-> 1, isExported |-> FALSE,
                      exprs |-> callExprs(c[i], "none")]] :
        c \in {d \in [1..n -> SUBSET (1..n)] : \A i \in 1..n : \A j \in d[i] : j >= i}}
\* every function calls at most one function of the scan, and possibly one
\* outside it
SingleCallFunctions(n) ==
    {f \in FunctionsOf(n, BOOLEAN, {"none", "unknown"}) :
        \A i \in 1..n : Len(f[i].exprs) <= 2
                        /\ Cardinality({e \in Range(f[i].exprs) : e.callee # UnknownCallee}) <= 1}

ImpactInit ==
    /\ GraphIdleInit
    /\ \/ depInput \in UpwardFunctions(MaxFuncs)
       \/ depInput \in SingleCallFunctions(MaxFuncs - 1)

\* --focus a,b: names of the graph and a name that is no node
FocusLists ==
    {<<1>>, <<Len(graph.nodes)>>, <<2, 1>>, <<UnknownCallee, 1>>}

\* graph.ts:92-95
Impact(focusFunctions, depth) ==
    /\ graph.built
    /\ ~subgraph.built
    /\ focus' = [functions |-> focusFunctions, depth |-> depth]
    /\ subgraph' = buildImpactSubgraph(graph, focusFunctions, depth)
    /\ UNCHANGED <<runVars, apiVars, dupVars, extVars, diffVars, watchVars>>

ImpactNext ==
    \/ BuildGraph
    \/ \E f \in FocusLists, d \in 0..MaxDepth : Impact(f, d)

ImpactSpec == ImpactInit /\ [][ImpactNext]_vars

\* ---------------------------------------------------------------------
\* C25
\* ---------------------------------------------------------------------
\* the nodes one call edge away from a node of S, in either direction
Neighbours(S) ==
    {m \in Known : \E x \in S : m \in Callees(x) \/ x \in Callees(m)}
RECURSIVE Within(_, _)
Within(S, k) == IF k = 0 THEN S ELSE Within(S \cup Neighbours(S), k - 1)

\* C25: the node set of buildImpactSubgraph(graph, focus, depth) is exactly
\* the set of nodes reachable from some focus function that is a node by at
\* most depth call edges taken in either direction; focus names that are no
\* nodes are ignored.
C25_SubgraphIsNeighbourhoodOfFocus ==
    subgraph.built =>
        /\ NodeNames(subgraph.nodes)
               = Within(Range(focus.functions) \cap Known, focus.depth)
        /\ Len(subgraph.nodes) = Cardinality(NodeNames(subgraph.nodes))

\* a node more than one edge away from the focus functions is in the
\* subgraph of depth 2
C25_Witness ==
    /\ subgraph.built
    /\ focus.depth = 2
    /\ \E m \in NodeNames(subgraph.nodes) :
          /\ m \notin Within(Range(focus.functions) \cap Known, 1)
          /\ \E x \in Known : m \in Callees(x) /\ x \notin Range(focus.functions)

\* a focus name that is no node, and a subgraph that is not the whole graph
C25_WitnessIgnored ==
    /\ subgraph.built
    /\ UnknownCallee \in Range(focus.functions)
    /\ Len(subgraph.nodes) >= 2
    /\ Known \ NodeNames(subgraph.nodes) # {}

\* ---------------------------------------------------------------------
\* C26
\* ---------------------------------------------------------------------
SubNames == NodeNames(subgraph.nodes)
CallersIn(name) == {x \in SubNames : name \in Callees(x)}
OrphansAreUncalledUnexported ==
    subgraph.orphans = SelectSeq(subgraph.nodes, LAMBDA node :
        ~node.function.isExported /\ CallersIn(node.function.name) = {})
EntryPointsAreExportedLeaves ==
    subgraph.entryPoints = SelectSeq(subgraph.nodes, LAMBDA node :
        /\ node.function.isExported
        /\ \A c \in Range(nodesGet(graph.nodes, node.function.name).calls) :
              c.callee \notin SubNames)
KeptCallsTargetNodes ==
    \A i \in DOMAIN subgraph.nodes :
        \A c \in Range(subgraph.nodes[i].calls) : c.callee \in SubNames

\* C26: in the result of buildImpactSubgraph the orphans are the
\* non-exported nodes with no caller among the subgraph's nodes, the entry
\* points are the exported nodes with no call to a node of the subgraph,
\* every kept call edge targets a node of the subgraph, and
\* circularDependencies is empty.
C26_SubgraphListsFollowItsNodes ==
    subgraph.built =>
        /\ OrphansAreUncalledUnexported
        /\ EntryPointsAreExportedLeaves
        /\ KeptCallsTargetNodes
        /\ subgraph.circularDependencies = <<>>

\* ---------------------------------------------------------------------
\* The race specification: scans with the cache on whose workers all post
\* their result, interleaved with modifications of the scanned files; each
\* worker keeps, next to its result, the state in which it read every file
\* of its chunk
\* ---------------------------------------------------------------------
\* worker.ts:39-49, parser.ts:216-246  as WorkerPost
WorkerRead(w) ==
    /\ pc = "waiting"
    /\ worker[w].st = "running"
    /\ worker' = [worker EXCEPT ![w] =
                    [st |-> "posted",
                     promise |-> "resolved",
                     value |-> onMessage(chunks[w], workerResult(chunks[w], fs)),
                     read |-> [p \in Range(chunks[w]) |-> fs[p]]]]
    /\ UNCHANGED <<apiVars, dupVars, extVars, cmdVars>>
    /\ UNCHANGED <<fs, disk, cpus, filePaths, useCache, pc, cache, cachedFiles,
                   uncachedFiles, chunks, results, runs, muts>>

RaceNext ==
    \/ StartRun(AllFiles, TRUE)
    \/ \E w \in DOMAIN worker : WorkerRead(w)
    \/ \E saved \in BOOLEAN : Aggregate(saved)
    \/ \E p \in VolatilePaths, f \in FileState : MutateFile(p, f)

RaceSpec == RunInit /\ [][RaceNext]_vars

\* ---------------------------------------------------------------------
\* C27
\* ---------------------------------------------------------------------
\* the entry of p is created or replaced by the step
EntryWritten(p) ==
    /\ p \in DOMAIN cache'.entries
    /\ p \notin DOMAIN cache.entries \/ cache.entries[p] # cache'.entries[p]

\* C27: under any interleaving of a run with modifications of the scanned
\* files, the fingerprint stored in a cache entry is the fingerprint of the
\* file content from which the entry's records were extracted (so that a
\* file modified after a worker read it and before the coordinator updated
\* the cache is not a cache hit on the next run).
C27_FingerprintIsOfParsedContent ==
    [][(pc = "waiting" /\ pc' = "returned") =>
          \A w \in DOMAIN worker : \A p \in DOMAIN worker[w].read :
              EntryWritten(p) => cache'.entries[p].mtime = worker[w].read[p].mtime]_vars

\* ---------------------------------------------------------------------
\* The run under fair scheduling: a running worker thread ends in one of
\* its four ways, and the continuation of parseFiles runs once every promise
\* is resolved (the event loop runs a ready continuation)
\* ---------------------------------------------------------------------
WorkerEnds(w) ==
    /\ w \in DOMAIN worker
    /\ \/ WorkerError(w)
       \/ \E code \in {0, 1} : WorkerExit(w, code)
       \/ WorkerFail(w)
       \/ WorkerPost(w)

\* parseFiles and its workers, the files left alone
LiveNext ==
    \/ \E uc \in BOOLEAN : StartRun(AllFiles, uc)
    \/ \E w \in 1..MaxCpus : WorkerEnds(w)
    \/ \E saved \in BOOLEAN : Aggregate(saved)

\* parser.ts:159  the await of Promise.all is left once every promise is
\* resolved: the steps of Aggregate, seen on pc alone
Resume ==
    /\ pc = "waiting"
    /\ \A w \in DOMAIN worker : worker[w].promise = "resolved"
    /\ pc' = "returned"

RunFairness ==
    /\ \A w \in 1..MaxCpus : WF_vars(WorkerEnds(w))
    /\ WF_pc(Resume)

RunLiveSpec == RunInit /\ [][LiveNext]_vars /\ RunFairness

\* ---------------------------------------------------------------------
\* C28
\* ---------------------------------------------------------------------
AllWorkersGone == \A w \in DOMAIN worker : worker[w].st # "running"

\* C28: once every dispatched worker has terminated, whatever the way each
\* one ended (posted a result, raised an error, exited with a non-zero code,
\* or exited with code 0 without posting), parseFiles eventually returns or
\* throws: the coordinator never waits forever on a worker that is gone.
C28_RunEndsOnceWorkersAreGone ==
    (pc = "waiting" /\ AllWorkersGone) ~> (pc \in {"returned", "thrown"})

\* ---------------------------------------------------------------------
\* watch command (commands/watch.ts): the initial scan, the watcher's events,
\* the debounce timer and the rescans it starts. A scanCommand call that has
\* not settled stands at one of its awaits: loadConfig, crawl, parseFiles
\* (which loads the cache file when it starts and saves it when it ends) or
\* saveRegistry (which writes the registry file)
\* ---------------------------------------------------------------------
MaxEvents == 3

ScanAwaits == <<"config", "crawl", "parse", "save">>

awaitAfter(pos) ==
    ScanAwaits[(CHOOSE k \in DOMAIN ScanAwaits : ScanAwaits[k] = pos) + 1]

withoutScan(s, i) == SubSeq(s, 1, i - 1) \o SubSeq(s, i + 1, Len(s))

WatchInit ==
    /\ RunIdle
    /\ FilesIdle
    /\ ApiIdle
    /\ DupIdle
    /\ ExtIdle
    /\ DiffIdle
    /\ ImpactIdle
    /\ WatchIdle

\* watch.ts:27-40  watchCommand up to the await of the initial scan
WatchStart ==
    /\ watchPc = "off"
    /\ watchPc' = "initial"
    /\ scanning' = <<"config">>
    /\ UNCHANGED <<runVars, apiVars, dupVars, extVars, diffVars, impactVars>>
    /\ UNCHANGED <<rescanTimer, events>>

\* scan.ts:35-84  a scan in progress reaches its next await
ScanAdvance(i) ==
    /\ i \in DOMAIN scanning
    /\ scanning[i] # "save"
    /\ scanning' = [scanning EXCEPT ![i] = awaitAfter(@)]
    /\ UNCHANGED <<runVars, apiVars, dupVars, extVars, diffVars, impactVars>>
    /\ UNCHANGED <<watchPc, rescanTimer, events>>

\* scan.ts:53-56, 84-98  a scan returns (no file found, or the registry saved)
\* or throws out of one of its awaits. The initial scan is awaited: its
\* return lets watchCommand set up the watcher and the handlers
\* (watch.ts:41-105), its failure is rethrown (watch.ts:109-113). A rescan is
\* not awaited: its end is only logged (watch.ts:66-72)
ScanSettles(i, ok) ==
    /\ i \in DOMAIN scanning
    /\ ok => scanning[i] \in {"crawl", "save"}
    /\ scanning' = withoutScan(scanning, i)
    /\ watchPc' = IF watchPc = "initial"
                  THEN IF ok THEN "watching" ELSE "failed"
                  ELSE watchPc
    /\ UNCHANGED <<runVars, apiVars, dupVars, extVars, diffVars, impactVars>>
    /\ UNCHANGED <<rescanTimer, events>>

\* watch.ts:60-65, 77-90  'add', 'change' or 'unlink': scheduleRescan clears
\* the timer and sets it again
FileEvent ==
    /\ watchPc = "watching"
    /\ events < MaxEvents
    /\ events' = events + 1
    /\ rescanTimer' = "set"
    /\ UNCHANGED <<runVars, apiVars, dupVars, extVars, diffVars, impactVars>>
    /\ UNCHANGED <<watchPc, scanning>>

\* watch.ts:65-74  the timer's callback calls scanCommand, which runs up to
\* its first await
TimerFires ==
    /\ watchPc = "watching"
    /\ rescanTimer = "set"
    /\ rescanTimer' = "fired"
    /\ scanning' = Append(scanning, "config")
    /\ UNCHANGED <<runVars, apiVars, dupVars, extVars, diffVars, impactVars>>
    /\ UNCHANGED <<watchPc, events>>

\* watch.ts:96-105  SIGINT: the watcher is closed and the process exits,
\* whatever is still running
Shutdown ==
    /\ watchPc = "watching"
    /\ watchPc' = "stopped"
    /\ scanning' = <<>>
    /\ UNCHANGED <<runVars, apiVars, dupVars, extVars, diffVars, impactVars>>
    /\ UNCHANGED <<rescanTimer, events>>

WatchNext ==
    \/ WatchStart
    \/ \E i \in 1..(MaxEvents + 1) : ScanAdvance(i)
    \/ \E i \in 1..(MaxEvents + 1), ok \in BOOLEAN : ScanSettles(i, ok)
    \/ FileEvent
    \/ TimerFires
    \/ Shutdown

WatchSpec == WatchInit /\ [][WatchNext]_vars

\* ---------------------------------------------------------------------
\* C30
\* ---------------------------------------------------------------------
\* C30: in watch mode at most one scan is in progress at any time: a
\* debounced rescan never starts while an earlier rescan is still running,
\* so two scans never read and write the cache file or the registry file
\* concurrently.
C30_AtMostOneScanInProgress ==
    Len(scanning) <= 1

====
